---- MODULE Spec2Model ----
(***************************************************************************)
(* Model of the mnemonic codec (src/src/lib.rs): the word dictionary, the   *)
(* template driven encoder and the validating decoder.                      *)
(*                                                                          *)
(* Text and data are byte strings, as in the source (&[u8]): a byte is an   *)
(* integer in 0..255 and a byte string is a sequence of bytes, so a word    *)
(* such as b"yes" is <<121,101,115>>.  Indices (n, i, offset, dictionary    *)
(* indices) are 0-based as in the source; the sequence element at 0-based  *)
(* index j is s[j+1].                                                       *)
(***************************************************************************)
EXTENDS Integers, Sequences, FiniteSets, TLC

\* lib.rs:83  const MN_BASE: u32 = 1626  (cubic root of 2^32, rounded up)
MN_BASE == 1626

\* lib.rs:86  const MN_REMAINDER: usize = 7  (extra words for 24 bit remainders)
MN_REMAINDER == 7

\* lib.rs:89  pub const MN_FDEFAULT = b"x-x-x--"
MN_FDEFAULT == <<120, 45, 120, 45, 120, 45, 45>>

(***************************************************************************)
(* u32.  TLC's integers are 32-bit signed, so a u32 is kept as two 16-bit   *)
(* halves, [hi, lo] for hi * 2^16 + lo, and its arithmetic wraps at 2^32.   *)
(***************************************************************************)
\* the u32 of an integer 0 <= v < 2^31
u32(v) == [hi |-> v \div 65536, lo |-> v % 65536]

\* a + b on u32 (wrapping)
u32_add(a, b) ==
  [hi |-> (a.hi + b.hi + ((a.lo + b.lo) \div 65536)) % 65536,
   lo |-> (a.lo + b.lo) % 65536]

\* whether a + b exceeds u32::MAX
u32_add_overflows(a, b) == a.hi + b.hi + ((a.lo + b.lo) \div 65536) >= 65536

\* a * m on u32 (wrapping), for an integer 0 <= m < 2^15
u32_mul(a, m) ==
  [hi |-> (a.hi * m + ((a.lo * m) \div 65536)) % 65536,
   lo |-> (a.lo * m) % 65536]

\* a / d and a % d as integers, for an integer 3 <= d < 2^15
u32_div(a, d) == (a.hi \div d) * 65536 + (((a.hi % d) * 65536 + a.lo) \div d)
u32_mod(a, d) == ((a.hi % d) * 65536 + a.lo) % d

\* a > v, for an integer 0 <= v < 2^31
u32_gt(a, v) == a.hi > v \div 65536 \/ (a.hi = v \div 65536 /\ a.lo > v % 65536)

\* lib.rs:91-365  static MN_WORDS: [&[u8]; MN_BASE + MN_REMAINDER]
MN_WORDS ==
  <<
    <<97,99,97,100,101,109,121>>, <<97,99,114,111,98,97,116>>, <<97,99,116,105,118,101>>,  \* 0: academy acrobat active
    <<97,99,116,111,114>>, <<97,100,97,109>>, <<97,100,109,105,114,97,108>>,  \* 3: actor adam admiral
    <<97,100,114,105,97,110>>, <<97,102,114,105,99,97>>, <<97,103,101,110,100,97>>,  \* 6: adrian africa agenda
    <<97,103,101,110,116>>, <<97,105,114,108,105,110,101>>, <<97,105,114,112,111,114,116>>,  \* 9: agent airline airport
    <<97,108,97,100,100,105,110>>, <<97,108,97,114,109>>, <<97,108,97,115,107,97>>,  \* 12: aladdin alarm alaska
    <<97,108,98,101,114,116>>, <<97,108,98,105,110,111>>, <<97,108,98,117,109>>,  \* 15: albert albino album
    <<97,108,99,111,104,111,108>>, <<97,108,101,120>>, <<97,108,103,101,98,114,97>>,  \* 18: alcohol alex algebra
    <<97,108,105,98,105>>, <<97,108,105,99,101>>, <<97,108,105,101,110>>,  \* 21: alibi alice alien
    <<97,108,112,104,97>>, <<97,108,112,105,110,101>>, <<97,109,97,100,101,117,115>>,  \* 24: alpha alpine amadeus
    <<97,109,97,110,100,97>>, <<97,109,97,122,111,110>>, <<97,109,98,101,114>>,  \* 27: amanda amazon amber
    <<97,109,101,114,105,99,97>>, <<97,109,105,103,111>>, <<97,110,97,108,111,103>>,  \* 30: america amigo analog
    <<97,110,97,116,111,109,121>>, <<97,110,103,101,108>>, <<97,110,105,109,97,108>>,  \* 33: anatomy angel animal
    <<97,110,116,101,110,110,97>>, <<97,110,116,111,110,105,111>>, <<97,112,111,108,108,111>>,  \* 36: antenna antonio apollo
    <<97,112,114,105,108>>, <<97,114,99,104,105,118,101>>, <<97,114,99,116,105,99>>,  \* 39: april archive arctic
    <<97,114,105,122,111,110,97>>, <<97,114,110,111,108,100>>, <<97,114,111,109,97>>,  \* 42: arizona arnold aroma
    <<97,114,116,104,117,114>>, <<97,114,116,105,115,116>>, <<97,115,105,97>>,  \* 45: arthur artist asia
    <<97,115,112,101,99,116>>, <<97,115,112,105,114,105,110>>, <<97,116,104,101,110,97>>,  \* 48: aspect aspirin athena
    <<97,116,104,108,101,116,101>>, <<97,116,108,97,115>>, <<97,117,100,105,111>>,  \* 51: athlete atlas audio
    <<97,117,103,117,115,116>>, <<97,117,115,116,114,105,97>>, <<97,120,105,111,109>>,  \* 54: august austria axiom
    <<97,122,116,101,99>>, <<98,97,108,97,110,99,101>>, <<98,97,108,108,97,100>>,  \* 57: aztec balance ballad
    <<98,97,110,97,110,97>>, <<98,97,110,100,105,116>>, <<98,97,110,106,111>>,  \* 60: banana bandit banjo
    <<98,97,114,99,111,100,101>>, <<98,97,114,111,110>>, <<98,97,115,105,99>>,  \* 63: barcode baron basic
    <<98,97,116,116,101,114,121>>, <<98,101,108,103,105,117,109>>, <<98,101,114,108,105,110>>,  \* 66: battery belgium berlin
    <<98,101,114,109,117,100,97>>, <<98,101,114,110,97,114,100>>, <<98,105,107,105,110,105>>,  \* 69: bermuda bernard bikini
    <<98,105,110,97,114,121>>, <<98,105,110,103,111>>, <<98,105,111,108,111,103,121>>,  \* 72: binary bingo biology
    <<98,108,111,99,107>>, <<98,108,111,110,100,101>>, <<98,111,110,117,115>>,  \* 75: block blonde bonus
    <<98,111,114,105,115>>, <<98,111,115,116,111,110>>, <<98,111,120,101,114>>,  \* 78: boris boston boxer
    <<98,114,97,110,100,121>>, <<98,114,97,118,111>>, <<98,114,97,122,105,108>>,  \* 81: brandy bravo brazil
    <<98,114,111,110,122,101>>, <<98,114,111,119,110>>, <<98,114,117,99,101>>,  \* 84: bronze brown bruce
    <<98,114,117,110,111>>, <<98,117,114,103,101,114>>, <<98,117,114,109,97>>,  \* 87: bruno burger burma
    <<99,97,98,105,110,101,116>>, <<99,97,99,116,117,115>>, <<99,97,102,101>>,  \* 90: cabinet cactus cafe
    <<99,97,105,114,111>>, <<99,97,107,101>>, <<99,97,108,121,112,115,111>>,  \* 93: cairo cake calypso
    <<99,97,109,101,108>>, <<99,97,109,101,114,97>>, <<99,97,109,112,117,115>>,  \* 96: camel camera campus
    <<99,97,110,97,100,97>>, <<99,97,110,97,108>>, <<99,97,110,110,111,110>>,  \* 99: canada canal cannon
    <<99,97,110,111,101>>, <<99,97,110,116,105,110,97>>, <<99,97,110,118,97,115>>,  \* 102: canoe cantina canvas
    <<99,97,110,121,111,110>>, <<99,97,112,105,116,97,108>>, <<99,97,114,97,109,101,108>>,  \* 105: canyon capital caramel
    <<99,97,114,97,118,97,110>>, <<99,97,114,98,111,110>>, <<99,97,114,103,111>>,  \* 108: caravan carbon cargo
    <<99,97,114,108,111>>, <<99,97,114,111,108>>, <<99,97,114,112,101,116>>,  \* 111: carlo carol carpet
    <<99,97,114,116,101,108>>, <<99,97,115,105,110,111>>, <<99,97,115,116,108,101>>,  \* 114: cartel casino castle
    <<99,97,115,116,114,111>>, <<99,97,116,97,108,111,103>>, <<99,97,118,105,97,114>>,  \* 117: castro catalog caviar
    <<99,101,99,105,108,105,97>>, <<99,101,109,101,110,116>>, <<99,101,110,116,101,114>>,  \* 120: cecilia cement center
    <<99,101,110,116,117,114,121>>, <<99,101,114,97,109,105,99>>, <<99,104,97,109,98,101,114>>,  \* 123: century ceramic chamber
    <<99,104,97,110,99,101>>, <<99,104,97,110,103,101>>, <<99,104,97,111,115>>,  \* 126: chance change chaos
    <<99,104,97,114,108,105,101>>, <<99,104,97,114,109>>, <<99,104,97,114,116,101,114>>,  \* 129: charlie charm charter
    <<99,104,101,102>>, <<99,104,101,109,105,115,116>>, <<99,104,101,114,114,121>>,  \* 132: chef chemist cherry
    <<99,104,101,115,115>>, <<99,104,105,99,97,103,111>>, <<99,104,105,99,107,101,110>>,  \* 135: chess chicago chicken
    <<99,104,105,101,102>>, <<99,104,105,110,97>>, <<99,105,103,97,114>>,  \* 138: chief china cigar
    <<99,105,110,101,109,97>>, <<99,105,114,99,117,115>>, <<99,105,116,105,122,101,110>>,  \* 141: cinema circus citizen
    <<99,105,116,121>>, <<99,108,97,114,97>>, <<99,108,97,115,115,105,99>>,  \* 144: city clara classic
    <<99,108,97,117,100,105,97>>, <<99,108,101,97,110>>, <<99,108,105,101,110,116>>,  \* 147: claudia clean client
    <<99,108,105,109,97,120>>, <<99,108,105,110,105,99>>, <<99,108,111,99,107>>,  \* 150: climax clinic clock
    <<99,108,117,98>>, <<99,111,98,114,97>>, <<99,111,99,111,110,117,116>>,  \* 153: club cobra coconut
    <<99,111,108,97>>, <<99,111,108,108,101,99,116>>, <<99,111,108,111,109,98,111>>,  \* 156: cola collect colombo
    <<99,111,108,111,110,121>>, <<99,111,108,111,114>>, <<99,111,109,98,97,116>>,  \* 159: colony color combat
    <<99,111,109,101,100,121>>, <<99,111,109,101,116>>, <<99,111,109,109,97,110,100>>,  \* 162: comedy comet command
    <<99,111,109,112,97,99,116>>, <<99,111,109,112,97,110,121>>, <<99,111,109,112,108,101,120>>,  \* 165: compact company complex
    <<99,111,110,99,101,112,116>>, <<99,111,110,99,101,114,116>>, <<99,111,110,110,101,99,116>>,  \* 168: concept concert connect
    <<99,111,110,115,117,108>>, <<99,111,110,116,97,99,116>>, <<99,111,110,116,101,120,116>>,  \* 171: consul contact context
    <<99,111,110,116,111,117,114>>, <<99,111,110,116,114,111,108>>, <<99,111,110,118,101,114,116>>,  \* 174: contour control convert
    <<99,111,112,121>>, <<99,111,114,110,101,114>>, <<99,111,114,111,110,97>>,  \* 177: copy corner corona
    <<99,111,114,114,101,99,116>>, <<99,111,115,109,111,115>>, <<99,111,117,112,108,101>>,  \* 180: correct cosmos couple
    <<99,111,117,114,97,103,101>>, <<99,111,119,98,111,121>>, <<99,114,97,102,116>>,  \* 183: courage cowboy craft
    <<99,114,97,115,104>>, <<99,114,101,100,105,116>>, <<99,114,105,99,107,101,116>>,  \* 186: crash credit cricket
    <<99,114,105,116,105,99>>, <<99,114,111,119,110>>, <<99,114,121,115,116,97,108>>,  \* 189: critic crown crystal
    <<99,117,98,97>>, <<99,117,108,116,117,114,101>>, <<100,97,108,108,97,115>>,  \* 192: cuba culture dallas
    <<100,97,110,99,101>>, <<100,97,110,105,101,108>>, <<100,97,118,105,100>>,  \* 195: dance daniel david
    <<100,101,99,97,100,101>>, <<100,101,99,105,109,97,108>>, <<100,101,108,105,118,101,114>>,  \* 198: decade decimal deliver
    <<100,101,108,116,97>>, <<100,101,108,117,120,101>>, <<100,101,109,97,110,100>>,  \* 201: delta deluxe demand
    <<100,101,109,111>>, <<100,101,110,109,97,114,107>>, <<100,101,114,98,121>>,  \* 204: demo denmark derby
    <<100,101,115,105,103,110>>, <<100,101,116,101,99,116>>, <<100,101,118,101,108,111,112>>,  \* 207: design detect develop
    <<100,105,97,103,114,97,109>>, <<100,105,97,108,111,103>>, <<100,105,97,109,111,110,100>>,  \* 210: diagram dialog diamond
    <<100,105,97,110,97>>, <<100,105,101,103,111>>, <<100,105,101,115,101,108>>,  \* 213: diana diego diesel
    <<100,105,101,116>>, <<100,105,103,105,116,97,108>>, <<100,105,108,101,109,109,97>>,  \* 216: diet digital dilemma
    <<100,105,112,108,111,109,97>>, <<100,105,114,101,99,116>>, <<100,105,115,99,111>>,  \* 219: diploma direct disco
    <<100,105,115,110,101,121>>, <<100,105,115,116,97,110,116>>, <<100,111,99,116,111,114>>,  \* 222: disney distant doctor
    <<100,111,108,108,97,114>>, <<100,111,109,105,110,105,99>>, <<100,111,109,105,110,111>>,  \* 225: dollar dominic domino
    <<100,111,110,97,108,100>>, <<100,114,97,103,111,110>>, <<100,114,97,109,97>>,  \* 228: donald dragon drama
    <<100,117,98,108,105,110>>, <<100,117,101,116>>, <<100,121,110,97,109,105,99>>,  \* 231: dublin duet dynamic
    <<101,97,115,116>>, <<101,99,111,108,111,103,121>>, <<101,99,111,110,111,109,121>>,  \* 234: east ecology economy
    <<101,100,103,97,114>>, <<101,103,121,112,116>>, <<101,108,97,115,116,105,99>>,  \* 237: edgar egypt elastic
    <<101,108,101,103,97,110,116>>, <<101,108,101,109,101,110,116>>, <<101,108,105,116,101>>,  \* 240: elegant element elite
    <<101,108,118,105,115>>, <<101,109,97,105,108>>, <<101,110,101,114,103,121>>,  \* 243: elvis email energy
    <<101,110,103,105,110,101>>, <<101,110,103,108,105,115,104>>, <<101,112,105,115,111,100,101>>,  \* 246: engine english episode
    <<101,113,117,97,116,111,114>>, <<101,115,99,111,114,116>>, <<101,116,104,110,105,99>>,  \* 249: equator escort ethnic
    <<101,117,114,111,112,101>>, <<101,118,101,114,101,115,116>>, <<101,118,105,100,101,110,116>>,  \* 252: europe everest evident
    <<101,120,97,99,116>>, <<101,120,97,109,112,108,101>>, <<101,120,105,116>>,  \* 255: exact example exit
    <<101,120,111,116,105,99>>, <<101,120,112,111,114,116>>, <<101,120,112,114,101,115,115>>,  \* 258: exotic export express
    <<101,120,116,114,97>>, <<102,97,98,114,105,99>>, <<102,97,99,116,111,114>>,  \* 261: extra fabric factor
    <<102,97,108,99,111,110>>, <<102,97,109,105,108,121>>, <<102,97,110,116,97,115,121>>,  \* 264: falcon family fantasy
    <<102,97,115,104,105,111,110>>, <<102,105,98,101,114>>, <<102,105,99,116,105,111,110>>,  \* 267: fashion fiber fiction
    <<102,105,100,101,108>>, <<102,105,101,115,116,97>>, <<102,105,103,117,114,101>>,  \* 270: fidel fiesta figure
    <<102,105,108,109>>, <<102,105,108,116,101,114>>, <<102,105,110,97,108>>,  \* 273: film filter final
    <<102,105,110,97,110,99,101>>, <<102,105,110,105,115,104>>, <<102,105,110,108,97,110,100>>,  \* 276: finance finish finland
    <<102,108,97,115,104>>, <<102,108,111,114,105,100,97>>, <<102,108,111,119,101,114>>,  \* 279: flash florida flower
    <<102,108,117,105,100>>, <<102,108,117,116,101>>, <<102,111,99,117,115>>,  \* 282: fluid flute focus
    <<102,111,114,100>>, <<102,111,114,101,115,116>>, <<102,111,114,109,97,108>>,  \* 285: ford forest formal
    <<102,111,114,109,97,116>>, <<102,111,114,109,117,108,97>>, <<102,111,114,116,117,110,101>>,  \* 288: format formula fortune
    <<102,111,114,117,109>>, <<102,114,97,103,105,108,101>>, <<102,114,97,110,99,101>>,  \* 291: forum fragile france
    <<102,114,97,110,107>>, <<102,114,105,101,110,100>>, <<102,114,111,122,101,110>>,  \* 294: frank friend frozen
    <<102,117,116,117,114,101>>, <<103,97,98,114,105,101,108>>, <<103,97,108,97,120,121>>,  \* 297: future gabriel galaxy
    <<103,97,108,108,101,114,121>>, <<103,97,109,109,97>>, <<103,97,114,97,103,101>>,  \* 300: gallery gamma garage
    <<103,97,114,100,101,110>>, <<103,97,114,108,105,99>>, <<103,101,109,105,110,105>>,  \* 303: garden garlic gemini
    <<103,101,110,101,114,97,108>>, <<103,101,110,101,116,105,99>>, <<103,101,110,105,117,115>>,  \* 306: general genetic genius
    <<103,101,114,109,97,110,121>>, <<103,108,111,98,97,108>>, <<103,108,111,114,105,97>>,  \* 309: germany global gloria
    <<103,111,108,102>>, <<103,111,110,100,111,108,97>>, <<103,111,110,103>>,  \* 312: golf gondola gong
    <<103,111,111,100>>, <<103,111,114,100,111,110>>, <<103,111,114,105,108,108,97>>,  \* 315: good gordon gorilla
    <<103,114,97,110,100>>, <<103,114,97,110,105,116,101>>, <<103,114,97,112,104>>,  \* 318: grand granite graph
    <<103,114,101,101,110>>, <<103,114,111,117,112>>, <<103,117,105,100,101>>,  \* 321: green group guide
    <<103,117,105,116,97,114>>, <<103,117,114,117>>, <<104,97,110,100>>,  \* 324: guitar guru hand
    <<104,97,112,112,121>>, <<104,97,114,98,111,114>>, <<104,97,114,109,111,110,121>>,  \* 327: happy harbor harmony
    <<104,97,114,118,97,114,100>>, <<104,97,118,97,110,97>>, <<104,97,119,97,105,105>>,  \* 330: harvard havana hawaii
    <<104,101,108,101,110,97>>, <<104,101,108,108,111>>, <<104,101,110,114,121>>,  \* 333: helena hello henry
    <<104,105,108,116,111,110>>, <<104,105,115,116,111,114,121>>, <<104,111,114,105,122,111,110>>,  \* 336: hilton history horizon
    <<104,111,116,101,108>>, <<104,117,109,97,110>>, <<104,117,109,111,114>>,  \* 339: hotel human humor
    <<105,99,111,110>>, <<105,100,101,97>>, <<105,103,108,111,111>>,  \* 342: icon idea igloo
    <<105,103,111,114>>, <<105,109,97,103,101>>, <<105,109,112,97,99,116>>,  \* 345: igor image impact
    <<105,109,112,111,114,116>>, <<105,110,100,101,120>>, <<105,110,100,105,97>>,  \* 348: import index india
    <<105,110,100,105,103,111>>, <<105,110,112,117,116>>, <<105,110,115,101,99,116>>,  \* 351: indigo input insect
    <<105,110,115,116,97,110,116>>, <<105,114,105,115>>, <<105,116,97,108,105,97,110>>,  \* 354: instant iris italian
    <<106,97,99,107,101,116>>, <<106,97,99,111,98>>, <<106,97,103,117,97,114>>,  \* 357: jacket jacob jaguar
    <<106,97,110,101,116>>, <<106,97,112,97,110>>, <<106,97,114,103,111,110>>,  \* 360: janet japan jargon
    <<106,97,122,122>>, <<106,101,101,112>>, <<106,111,104,110>>,  \* 363: jazz jeep john
    <<106,111,107,101,114>>, <<106,111,114,100,97,110>>, <<106,117,109,98,111>>,  \* 366: joker jordan jumbo
    <<106,117,110,101>>, <<106,117,110,103,108,101>>, <<106,117,110,105,111,114>>,  \* 369: june jungle junior
    <<106,117,112,105,116,101,114>>, <<107,97,114,97,116,101>>, <<107,97,114,109,97>>,  \* 372: jupiter karate karma
    <<107,97,121,97,107>>, <<107,101,114,109,105,116>>, <<107,105,108,111>>,  \* 375: kayak kermit kilo
    <<107,105,110,103>>, <<107,111,97,108,97>>, <<107,111,114,101,97>>,  \* 378: king koala korea
    <<108,97,98,111,114>>, <<108,97,100,121>>, <<108,97,103,111,111,110>>,  \* 381: labor lady lagoon
    <<108,97,112,116,111,112>>, <<108,97,115,101,114>>, <<108,97,116,105,110>>,  \* 384: laptop laser latin
    <<108,97,118,97>>, <<108,101,99,116,117,114,101>>, <<108,101,102,116>>,  \* 387: lava lecture left
    <<108,101,103,97,108>>, <<108,101,109,111,110>>, <<108,101,118,101,108>>,  \* 390: legal lemon level
    <<108,101,120,105,99,111,110>>, <<108,105,98,101,114,97,108>>, <<108,105,98,114,97>>,  \* 393: lexicon liberal libra
    <<108,105,109,98,111>>, <<108,105,109,105,116>>, <<108,105,110,100,97>>,  \* 396: limbo limit linda
    <<108,105,110,101,97,114>>, <<108,105,111,110>>, <<108,105,113,117,105,100>>,  \* 399: linear lion liquid
    <<108,105,116,101,114>>, <<108,105,116,116,108,101>>, <<108,108,97,109,97>>,  \* 402: liter little llama
    <<108,111,98,98,121>>, <<108,111,98,115,116,101,114>>, <<108,111,99,97,108>>,  \* 405: lobby lobster local
    <<108,111,103,105,99>>, <<108,111,103,111>>, <<108,111,108,97>>,  \* 408: logic logo lola
    <<108,111,110,100,111,110>>, <<108,111,116,117,115>>, <<108,117,99,97,115>>,  \* 411: london lotus lucas
    <<108,117,110,97,114>>, <<109,97,99,104,105,110,101>>, <<109,97,99,114,111>>,  \* 414: lunar machine macro
    <<109,97,100,97,109>>, <<109,97,100,111,110,110,97>>, <<109,97,100,114,105,100>>,  \* 417: madam madonna madrid
    <<109,97,101,115,116,114,111>>, <<109,97,103,105,99>>, <<109,97,103,110,101,116>>,  \* 420: maestro magic magnet
    <<109,97,103,110,117,109>>, <<109,97,106,111,114>>, <<109,97,109,97>>,  \* 423: magnum major mama
    <<109,97,109,98,111>>, <<109,97,110,97,103,101,114>>, <<109,97,110,103,111>>,  \* 426: mambo manager mango
    <<109,97,110,105,108,97>>, <<109,97,114,99,111>>, <<109,97,114,105,110,97>>,  \* 429: manila marco marina
    <<109,97,114,107,101,116>>, <<109,97,114,115>>, <<109,97,114,116,105,110>>,  \* 432: market mars martin
    <<109,97,114,118,105,110>>, <<109,97,115,116,101,114>>, <<109,97,116,114,105,120>>,  \* 435: marvin master matrix
    <<109,97,120,105,109,117,109>>, <<109,101,100,105,97>>, <<109,101,100,105,99,97,108>>,  \* 438: maximum media medical
    <<109,101,103,97>>, <<109,101,108,111,100,121>>, <<109,101,108,111,110>>,  \* 441: mega melody melon
    <<109,101,109,111>>, <<109,101,110,116,97,108>>, <<109,101,110,116,111,114>>,  \* 444: memo mental mentor
    <<109,101,110,117>>, <<109,101,114,99,117,114,121>>, <<109,101,115,115,97,103,101>>,  \* 447: menu mercury message
    <<109,101,116,97,108>>, <<109,101,116,101,111,114>>, <<109,101,116,101,114>>,  \* 450: metal meteor meter
    <<109,101,116,104,111,100>>, <<109,101,116,114,111>>, <<109,101,120,105,99,111>>,  \* 453: method metro mexico
    <<109,105,97,109,105>>, <<109,105,99,114,111>>, <<109,105,108,108,105,111,110>>,  \* 456: miami micro million
    <<109,105,110,101,114,97,108>>, <<109,105,110,105,109,117,109>>, <<109,105,110,117,115>>,  \* 459: mineral minimum minus
    <<109,105,110,117,116,101>>, <<109,105,114,97,99,108,101>>, <<109,105,114,97,103,101>>,  \* 462: minute miracle mirage
    <<109,105,114,97,110,100,97>>, <<109,105,115,116,101,114>>, <<109,105,120,101,114>>,  \* 465: miranda mister mixer
    <<109,111,98,105,108,101>>, <<109,111,100,101,108>>, <<109,111,100,101,109>>,  \* 468: mobile model modem
    <<109,111,100,101,114,110>>, <<109,111,100,117,108,97,114>>, <<109,111,109,101,110,116>>,  \* 471: modern modular moment
    <<109,111,110,97,99,111>>, <<109,111,110,105,99,97>>, <<109,111,110,105,116,111,114>>,  \* 474: monaco monica monitor
    <<109,111,110,111>>, <<109,111,110,115,116,101,114>>, <<109,111,110,116,97,110,97>>,  \* 477: mono monster montana
    <<109,111,114,103,97,110>>, <<109,111,116,101,108>>, <<109,111,116,105,102>>,  \* 480: morgan motel motif
    <<109,111,116,111,114>>, <<109,111,122,97,114,116>>, <<109,117,108,116,105>>,  \* 483: motor mozart multi
    <<109,117,115,101,117,109>>, <<109,117,115,105,99>>, <<109,117,115,116,97,110,103>>,  \* 486: museum music mustang
    <<110,97,116,117,114,97,108>>, <<110,101,111,110>>, <<110,101,112,97,108>>,  \* 489: natural neon nepal
    <<110,101,112,116,117,110,101>>, <<110,101,114,118,101>>, <<110,101,117,116,114,97,108>>,  \* 492: neptune nerve neutral
    <<110,101,118,97,100,97>>, <<110,101,119,115>>, <<110,105,110,106,97>>,  \* 495: nevada news ninja
    <<110,105,114,118,97,110,97>>, <<110,111,114,109,97,108>>, <<110,111,118,97>>,  \* 498: nirvana normal nova
    <<110,111,118,101,108>>, <<110,117,99,108,101,97,114>>, <<110,117,109,101,114,105,99>>,  \* 501: novel nuclear numeric
    <<110,121,108,111,110>>, <<111,97,115,105,115>>, <<111,98,106,101,99,116>>,  \* 504: nylon oasis object
    <<111,98,115,101,114,118,101>>, <<111,99,101,97,110>>, <<111,99,116,111,112,117,115>>,  \* 507: observe ocean octopus
    <<111,108,105,118,105,97>>, <<111,108,121,109,112,105,99>>, <<111,109,101,103,97>>,  \* 510: olivia olympic omega
    <<111,112,101,114,97>>, <<111,112,116,105,99>>, <<111,112,116,105,109,97,108>>,  \* 513: opera optic optimal
    <<111,114,97,110,103,101>>, <<111,114,98,105,116>>, <<111,114,103,97,110,105,99>>,  \* 516: orange orbit organic
    <<111,114,105,101,110,116>>, <<111,114,105,103,105,110>>, <<111,114,108,97,110,100,111>>,  \* 519: orient origin orlando
    <<111,115,99,97,114>>, <<111,120,102,111,114,100>>, <<111,120,121,103,101,110>>,  \* 522: oscar oxford oxygen
    <<111,122,111,110,101>>, <<112,97,98,108,111>>, <<112,97,99,105,102,105,99>>,  \* 525: ozone pablo pacific
    <<112,97,103,111,100,97>>, <<112,97,108,97,99,101>>, <<112,97,109,101,108,97>>,  \* 528: pagoda palace pamela
    <<112,97,110,97,109,97>>, <<112,97,110,100,97>>, <<112,97,110,101,108>>,  \* 531: panama panda panel
    <<112,97,110,105,99>>, <<112,97,114,97,100,111,120>>, <<112,97,114,100,111,110>>,  \* 534: panic paradox pardon
    <<112,97,114,105,115>>, <<112,97,114,107,101,114>>, <<112,97,114,107,105,110,103>>,  \* 537: paris parker parking
    <<112,97,114,111,100,121>>, <<112,97,114,116,110,101,114>>, <<112,97,115,115,97,103,101>>,  \* 540: parody partner passage
    <<112,97,115,115,105,118,101>>, <<112,97,115,116,97>>, <<112,97,115,116,101,108>>,  \* 543: passive pasta pastel
    <<112,97,116,101,110,116>>, <<112,97,116,114,105,111,116>>, <<112,97,116,114,111,108>>,  \* 546: patent patriot patrol
    <<112,97,116,114,111,110>>, <<112,101,103,97,115,117,115>>, <<112,101,108,105,99,97,110>>,  \* 549: patron pegasus pelican
    <<112,101,110,103,117,105,110>>, <<112,101,112,112,101,114>>, <<112,101,114,99,101,110,116>>,  \* 552: penguin pepper percent
    <<112,101,114,102,101,99,116>>, <<112,101,114,102,117,109,101>>, <<112,101,114,105,111,100>>,  \* 555: perfect perfume period
    <<112,101,114,109,105,116>>, <<112,101,114,115,111,110>>, <<112,101,114,117>>,  \* 558: permit person peru
    <<112,104,111,110,101>>, <<112,104,111,116,111>>, <<112,105,97,110,111>>,  \* 561: phone photo piano
    <<112,105,99,97,115,115,111>>, <<112,105,99,110,105,99>>, <<112,105,99,116,117,114,101>>,  \* 564: picasso picnic picture
    <<112,105,103,109,101,110,116>>, <<112,105,108,103,114,105,109>>, <<112,105,108,111,116>>,  \* 567: pigment pilgrim pilot
    <<112,105,114,97,116,101>>, <<112,105,120,101,108>>, <<112,105,122,122,97>>,  \* 570: pirate pixel pizza
    <<112,108,97,110,101,116>>, <<112,108,97,115,109,97>>, <<112,108,97,115,116,101,114>>,  \* 573: planet plasma plaster
    <<112,108,97,115,116,105,99>>, <<112,108,97,122,97>>, <<112,111,99,107,101,116>>,  \* 576: plastic plaza pocket
    <<112,111,101,109>>, <<112,111,101,116,105,99>>, <<112,111,107,101,114>>,  \* 579: poem poetic poker
    <<112,111,108,97,114,105,115>>, <<112,111,108,105,99,101>>, <<112,111,108,105,116,105,99>>,  \* 582: polaris police politic
    <<112,111,108,111>>, <<112,111,108,121,103,111,110>>, <<112,111,110,121>>,  \* 585: polo polygon pony
    <<112,111,112,99,111,114,110>>, <<112,111,112,117,108,97,114>>, <<112,111,115,116,97,103,101>>,  \* 588: popcorn popular postage
    <<112,111,115,116,97,108>>, <<112,114,101,99,105,115,101>>, <<112,114,101,102,105,120>>,  \* 591: postal precise prefix
    <<112,114,101,109,105,117,109>>, <<112,114,101,115,101,110,116>>, <<112,114,105,99,101>>,  \* 594: premium present price
    <<112,114,105,110,99,101>>, <<112,114,105,110,116,101,114>>, <<112,114,105,115,109>>,  \* 597: prince printer prism
    <<112,114,105,118,97,116,101>>, <<112,114,111,100,117,99,116>>, <<112,114,111,102,105,108,101>>,  \* 600: private product profile
    <<112,114,111,103,114,97,109>>, <<112,114,111,106,101,99,116>>, <<112,114,111,116,101,99,116>>,  \* 603: program project protect
    <<112,114,111,116,111,110>>, <<112,117,98,108,105,99>>, <<112,117,108,115,101>>,  \* 606: proton public pulse
    <<112,117,109,97>>, <<112,121,114,97,109,105,100>>, <<113,117,101,101,110>>,  \* 609: puma pyramid queen
    <<114,97,100,97,114>>, <<114,97,100,105,111>>, <<114,97,110,100,111,109>>,  \* 612: radar radio random
    <<114,97,112,105,100>>, <<114,101,98,101,108>>, <<114,101,99,111,114,100>>,  \* 615: rapid rebel record
    <<114,101,99,121,99,108,101>>, <<114,101,102,108,101,120>>, <<114,101,102,111,114,109>>,  \* 618: recycle reflex reform
    <<114,101,103,97,114,100>>, <<114,101,103,117,108,97,114>>, <<114,101,108,97,120>>,  \* 621: regard regular relax
    <<114,101,112,111,114,116>>, <<114,101,112,116,105,108,101>>, <<114,101,118,101,114,115,101>>,  \* 624: report reptile reverse
    <<114,105,99,97,114,100,111>>, <<114,105,110,103,111>>, <<114,105,116,117,97,108>>,  \* 627: ricardo ringo ritual
    <<114,111,98,101,114,116>>, <<114,111,98,111,116>>, <<114,111,99,107,101,116>>,  \* 630: robert robot rocket
    <<114,111,100,101,111>>, <<114,111,109,101,111>>, <<114,111,121,97,108>>,  \* 633: rodeo romeo royal
    <<114,117,115,115,105,97,110>>, <<115,97,102,97,114,105>>, <<115,97,108,97,100>>,  \* 636: russian safari salad
    <<115,97,108,97,109,105>>, <<115,97,108,109,111,110>>, <<115,97,108,111,110>>,  \* 639: salami salmon salon
    <<115,97,108,117,116,101>>, <<115,97,109,98,97>>, <<115,97,110,100,114,97>>,  \* 642: salute samba sandra
    <<115,97,110,116,97,110,97>>, <<115,97,114,100,105,110,101>>, <<115,99,104,111,111,108>>,  \* 645: santana sardine school
    <<115,99,114,101,101,110>>, <<115,99,114,105,112,116>>, <<115,101,99,111,110,100>>,  \* 648: screen script second
    <<115,101,99,114,101,116>>, <<115,101,99,116,105,111,110>>, <<115,101,103,109,101,110,116>>,  \* 651: secret section segment
    <<115,101,108,101,99,116>>, <<115,101,109,105,110,97,114>>, <<115,101,110,97,116,111,114>>,  \* 654: select seminar senator
    <<115,101,110,105,111,114>>, <<115,101,110,115,111,114>>, <<115,101,114,105,97,108>>,  \* 657: senior sensor serial
    <<115,101,114,118,105,99,101>>, <<115,104,101,114,105,102,102>>, <<115,104,111,99,107>>,  \* 660: service sheriff shock
    <<115,105,101,114,114,97>>, <<115,105,103,110,97,108>>, <<115,105,108,105,99,111,110>>,  \* 663: sierra signal silicon
    <<115,105,108,118,101,114>>, <<115,105,109,105,108,97,114>>, <<115,105,109,111,110>>,  \* 666: silver similar simon
    <<115,105,110,103,108,101>>, <<115,105,114,101,110>>, <<115,108,111,103,97,110>>,  \* 669: single siren slogan
    <<115,111,99,105,97,108>>, <<115,111,100,97>>, <<115,111,108,97,114>>,  \* 672: social soda solar
    <<115,111,108,105,100>>, <<115,111,108,111>>, <<115,111,110,105,99>>,  \* 675: solid solo sonic
    <<115,111,118,105,101,116>>, <<115,112,101,99,105,97,108>>, <<115,112,101,101,100>>,  \* 678: soviet special speed
    <<115,112,105,114,97,108>>, <<115,112,105,114,105,116>>, <<115,112,111,114,116>>,  \* 681: spiral spirit sport
    <<115,116,97,116,105,99>>, <<115,116,97,116,105,111,110>>, <<115,116,97,116,117,115>>,  \* 684: static station status
    <<115,116,101,114,101,111>>, <<115,116,111,110,101>>, <<115,116,111,112>>,  \* 687: stereo stone stop
    <<115,116,114,101,101,116>>, <<115,116,114,111,110,103>>, <<115,116,117,100,101,110,116>>,  \* 690: street strong student
    <<115,116,117,100,105,111>>, <<115,116,121,108,101>>, <<115,117,98,106,101,99,116>>,  \* 693: studio style subject
    <<115,117,108,116,97,110>>, <<115,117,112,101,114>>, <<115,117,115,97,110>>,  \* 696: sultan super susan
    <<115,117,115,104,105>>, <<115,117,122,117,107,105>>, <<115,119,105,116,99,104>>,  \* 699: sushi suzuki switch
    <<115,121,109,98,111,108>>, <<115,121,115,116,101,109>>, <<116,97,99,116,105,99>>,  \* 702: symbol system tactic
    <<116,97,104,105,116,105>>, <<116,97,108,101,110,116>>, <<116,97,110,103,111>>,  \* 705: tahiti talent tango
    <<116,97,114,122,97,110>>, <<116,97,120,105>>, <<116,101,108,101,120>>,  \* 708: tarzan taxi telex
    <<116,101,109,112,111>>, <<116,101,110,110,105,115>>, <<116,101,120,97,115>>,  \* 711: tempo tennis texas
    <<116,101,120,116,105,108,101>>, <<116,104,101,111,114,121>>, <<116,104,101,114,109,111,115>>,  \* 714: textile theory thermos
    <<116,105,103,101,114>>, <<116,105,116,97,110,105,99>>, <<116,111,107,121,111>>,  \* 717: tiger titanic tokyo
    <<116,111,109,97,116,111>>, <<116,111,112,105,99>>, <<116,111,114,110,97,100,111>>,  \* 720: tomato topic tornado
    <<116,111,114,111,110,116,111>>, <<116,111,114,112,101,100,111>>, <<116,111,116,97,108>>,  \* 723: toronto torpedo total
    <<116,111,116,101,109>>, <<116,111,117,114,105,115,116>>, <<116,114,97,99,116,111,114>>,  \* 726: totem tourist tractor
    <<116,114,97,102,102,105,99>>, <<116,114,97,110,115,105,116>>, <<116,114,97,112,101,122,101>>,  \* 729: traffic transit trapeze
    <<116,114,97,118,101,108>>, <<116,114,105,98,97,108>>, <<116,114,105,99,107>>,  \* 732: travel tribal trick
    <<116,114,105,100,101,110,116>>, <<116,114,105,108,111,103,121>>, <<116,114,105,112,111,100>>,  \* 735: trident trilogy tripod
    <<116,114,111,112,105,99>>, <<116,114,117,109,112,101,116>>, <<116,117,108,105,112>>,  \* 738: tropic trumpet tulip
    <<116,117,110,97>>, <<116,117,114,98,111>>, <<116,119,105,115,116>>,  \* 741: tuna turbo twist
    <<117,108,116,114,97>>, <<117,110,105,102,111,114,109>>, <<117,110,105,111,110>>,  \* 744: ultra uniform union
    <<117,114,97,110,105,117,109>>, <<118,97,99,117,117,109>>, <<118,97,108,105,100>>,  \* 747: uranium vacuum valid
    <<118,97,109,112,105,114,101>>, <<118,97,110,105,108,108,97>>, <<118,97,116,105,99,97,110>>,  \* 750: vampire vanilla vatican
    <<118,101,108,118,101,116>>, <<118,101,110,116,117,114,97>>, <<118,101,110,117,115>>,  \* 753: velvet ventura venus
    <<118,101,114,116,105,103,111>>, <<118,101,116,101,114,97,110>>, <<118,105,99,116,111,114>>,  \* 756: vertigo veteran victor
    <<118,105,100,101,111>>, <<118,105,101,110,110,97>>, <<118,105,107,105,110,103>>,  \* 759: video vienna viking
    <<118,105,108,108,97,103,101>>, <<118,105,110,99,101,110,116>>, <<118,105,111,108,101,116>>,  \* 762: village vincent violet
    <<118,105,111,108,105,110>>, <<118,105,114,116,117,97,108>>, <<118,105,114,117,115>>,  \* 765: violin virtual virus
    <<118,105,115,97>>, <<118,105,115,105,111,110>>, <<118,105,115,105,116,111,114>>,  \* 768: visa vision visitor
    <<118,105,115,117,97,108>>, <<118,105,116,97,109,105,110>>, <<118,105,118,97>>,  \* 771: visual vitamin viva
    <<118,111,99,97,108>>, <<118,111,100,107,97>>, <<118,111,108,99,97,110,111>>,  \* 774: vocal vodka volcano
    <<118,111,108,116,97,103,101>>, <<118,111,108,117,109,101>>, <<118,111,121,97,103,101>>,  \* 777: voltage volume voyage
    <<119,97,116,101,114>>, <<119,101,101,107,101,110,100>>, <<119,101,108,99,111,109,101>>,  \* 780: water weekend welcome
    <<119,101,115,116,101,114,110>>, <<119,105,110,100,111,119>>, <<119,105,110,116,101,114>>,  \* 783: western window winter
    <<119,105,122,97,114,100>>, <<119,111,108,102>>, <<119,111,114,108,100>>,  \* 786: wizard wolf world
    <<120,114,97,121>>, <<121,97,110,107,101,101>>, <<121,111,103,97>>,  \* 789: xray yankee yoga
    <<121,111,103,117,114,116>>, <<121,111,121,111>>, <<122,101,98,114,97>>,  \* 792: yogurt yoyo zebra
    <<122,101,114,111>>, <<122,105,103,122,97,103>>, <<122,105,112,112,101,114>>,  \* 795: zero zigzag zipper
    <<122,111,100,105,97,99>>, <<122,111,111,109>>, <<97,98,114,97,104,97,109>>,  \* 798: zodiac zoom abraham
    <<97,99,116,105,111,110>>, <<97,100,100,114,101,115,115>>, <<97,108,97,98,97,109,97>>,  \* 801: action address alabama
    <<97,108,102,114,101,100>>, <<97,108,109,111,110,100>>, <<97,109,109,111,110,105,97>>,  \* 804: alfred almond ammonia
    <<97,110,97,108,121,122,101>>, <<97,110,110,117,97,108>>, <<97,110,115,119,101,114>>,  \* 807: analyze annual answer
    <<97,112,112,108,101>>, <<97,114,101,110,97>>, <<97,114,109,97,100,97>>,  \* 810: apple arena armada
    <<97,114,115,101,110,97,108>>, <<97,116,108,97,110,116,97>>, <<97,116,111,109,105,99>>,  \* 813: arsenal atlanta atomic
    <<97,118,101,110,117,101>>, <<97,118,101,114,97,103,101>>, <<98,97,103,101,108>>,  \* 816: avenue average bagel
    <<98,97,107,101,114>>, <<98,97,108,108,101,116>>, <<98,97,109,98,105,110,111>>,  \* 819: baker ballet bambino
    <<98,97,109,98,111,111>>, <<98,97,114,98,97,114,97>>, <<98,97,115,107,101,116>>,  \* 822: bamboo barbara basket
    <<98,97,122,97,97,114>>, <<98,101,110,101,102,105,116>>, <<98,105,99,121,99,108,101>>,  \* 825: bazaar benefit bicycle
    <<98,105,115,104,111,112>>, <<98,108,105,116,122>>, <<98,111,110,106,111,117,114>>,  \* 828: bishop blitz bonjour
    <<98,111,116,116,108,101>>, <<98,114,105,100,103,101>>, <<98,114,105,116,105,115,104>>,  \* 831: bottle bridge british
    <<98,114,111,116,104,101,114>>, <<98,114,117,115,104>>, <<98,117,100,103,101,116>>,  \* 834: brother brush budget
    <<99,97,98,97,114,101,116>>, <<99,97,100,101,116>>, <<99,97,110,100,108,101>>,  \* 837: cabaret cadet candle
    <<99,97,112,105,116,97,110>>, <<99,97,112,115,117,108,101>>, <<99,97,114,101,101,114>>,  \* 840: capitan capsule career
    <<99,97,114,116,111,111,110>>, <<99,104,97,110,110,101,108>>, <<99,104,97,112,116,101,114>>,  \* 843: cartoon channel chapter
    <<99,104,101,101,115,101>>, <<99,105,114,99,108,101>>, <<99,111,98,97,108,116>>,  \* 846: cheese circle cobalt
    <<99,111,99,107,112,105,116>>, <<99,111,108,108,101,103,101>>, <<99,111,109,112,97,115,115>>,  \* 849: cockpit college compass
    <<99,111,109,114,97,100,101>>, <<99,111,110,100,111,114>>, <<99,114,105,109,115,111,110>>,  \* 852: comrade condor crimson
    <<99,121,99,108,111,110,101>>, <<100,97,114,119,105,110>>, <<100,101,99,108,97,114,101>>,  \* 855: cyclone darwin declare
    <<100,101,103,114,101,101>>, <<100,101,108,101,116,101>>, <<100,101,108,112,104,105>>,  \* 858: degree delete delphi
    <<100,101,110,118,101,114>>, <<100,101,115,101,114,116>>, <<100,105,118,105,100,101>>,  \* 861: denver desert divide
    <<100,111,108,98,121>>, <<100,111,109,97,105,110>>, <<100,111,109,105,110,103,111>>,  \* 864: dolby domain domingo
    <<100,111,117,98,108,101>>, <<100,114,105,110,107>>, <<100,114,105,118,101,114>>,  \* 867: double drink driver
    <<101,97,103,108,101>>, <<101,97,114,116,104>>, <<101,99,104,111>>,  \* 870: eagle earth echo
    <<101,99,108,105,112,115,101>>, <<101,100,105,116,111,114>>, <<101,100,117,99,97,116,101>>,  \* 873: eclipse editor educate
    <<101,100,119,97,114,100>>, <<101,102,102,101,99,116>>, <<101,108,101,99,116,114,97>>,  \* 876: edward effect electra
    <<101,109,101,114,97,108,100>>, <<101,109,111,116,105,111,110>>, <<101,109,112,105,114,101>>,  \* 879: emerald emotion empire
    <<101,109,112,116,121>>, <<101,115,99,97,112,101>>, <<101,116,101,114,110,97,108>>,  \* 882: empty escape eternal
    <<101,118,101,110,105,110,103>>, <<101,120,104,105,98,105,116>>, <<101,120,112,97,110,100>>,  \* 885: evening exhibit expand
    <<101,120,112,108,111,114,101>>, <<101,120,116,114,101,109,101>>, <<102,101,114,114,97,114,105>>,  \* 888: explore extreme ferrari
    <<102,105,114,115,116>>, <<102,108,97,103>>, <<102,111,108,105,111>>,  \* 891: first flag folio
    <<102,111,114,103,101,116>>, <<102,111,114,119,97,114,100>>, <<102,114,101,101,100,111,109>>,  \* 894: forget forward freedom
    <<102,114,101,115,104>>, <<102,114,105,100,97,121>>, <<102,117,106,105>>,  \* 897: fresh friday fuji
    <<103,97,108,105,108,101,111>>, <<103,97,114,99,105,97>>, <<103,101,110,101,115,105,115>>,  \* 900: galileo garcia genesis
    <<103,111,108,100>>, <<103,114,97,118,105,116,121>>, <<104,97,98,105,116,97,116>>,  \* 903: gold gravity habitat
    <<104,97,109,108,101,116>>, <<104,97,114,108,101,109>>, <<104,101,108,105,117,109>>,  \* 906: hamlet harlem helium
    <<104,111,108,105,100,97,121>>, <<104,111,117,115,101>>, <<104,117,110,116,101,114>>,  \* 909: holiday house hunter
    <<105,98,105,122,97>>, <<105,99,101,98,101,114,103>>, <<105,109,97,103,105,110,101>>,  \* 912: ibiza iceberg imagine
    <<105,110,102,97,110,116>>, <<105,115,111,116,111,112,101>>, <<106,97,99,107,115,111,110>>,  \* 915: infant isotope jackson
    <<106,97,109,97,105,99,97>>, <<106,97,115,109,105,110,101>>, <<106,97,118,97>>,  \* 918: jamaica jasmine java
    <<106,101,115,115,105,99,97>>, <<106,117,100,111>>, <<107,105,116,99,104,101,110>>,  \* 921: jessica judo kitchen
    <<108,97,122,97,114,117,115>>, <<108,101,116,116,101,114>>, <<108,105,99,101,110,115,101>>,  \* 924: lazarus letter license
    <<108,105,116,104,105,117,109>>, <<108,111,121,97,108>>, <<108,117,99,107,121>>,  \* 927: lithium loyal lucky
    <<109,97,103,101,110,116,97>>, <<109,97,105,108,98,111,120>>, <<109,97,110,117,97,108>>,  \* 930: magenta mailbox manual
    <<109,97,114,98,108,101>>, <<109,97,114,121>>, <<109,97,120,119,101,108,108>>,  \* 933: marble mary maxwell
    <<109,97,121,111,114>>, <<109,105,108,107>>, <<109,111,110,97,114,99,104>>,  \* 936: mayor milk monarch
    <<109,111,110,100,97,121>>, <<109,111,110,101,121>>, <<109,111,114,110,105,110,103>>,  \* 939: monday money morning
    <<109,111,116,104,101,114>>, <<109,121,115,116,101,114,121>>, <<110,97,116,105,118,101>>,  \* 942: mother mystery native
    <<110,101,99,116,97,114>>, <<110,101,108,115,111,110>>, <<110,101,116,119,111,114,107>>,  \* 945: nectar nelson network
    <<110,101,120,116>>, <<110,105,107,105,116,97>>, <<110,111,98,101,108>>,  \* 948: next nikita nobel
    <<110,111,98,111,100,121>>, <<110,111,109,105,110,97,108>>, <<110,111,114,119,97,121>>,  \* 951: nobody nominal norway
    <<110,111,116,104,105,110,103>>, <<110,117,109,98,101,114>>, <<111,99,116,111,98,101,114>>,  \* 954: nothing number october
    <<111,102,102,105,99,101>>, <<111,108,105,118,101,114>>, <<111,112,105,110,105,111,110>>,  \* 957: office oliver opinion
    <<111,112,116,105,111,110>>, <<111,114,100,101,114>>, <<111,117,116,115,105,100,101>>,  \* 960: option order outside
    <<112,97,99,107,97,103,101>>, <<112,97,110,99,97,107,101>>, <<112,97,110,100,111,114,97>>,  \* 963: package pancake pandora
    <<112,97,110,116,104,101,114>>, <<112,97,112,97>>, <<112,97,116,105,101,110,116>>,  \* 966: panther papa patient
    <<112,97,116,116,101,114,110>>, <<112,101,100,114,111>>, <<112,101,110,99,105,108>>,  \* 969: pattern pedro pencil
    <<112,101,111,112,108,101>>, <<112,104,97,110,116,111,109>>, <<112,104,105,108,105,112,115>>,  \* 972: people phantom philips
    <<112,105,111,110,101,101,114>>, <<112,108,117,116,111>>, <<112,111,100,105,117,109>>,  \* 975: pioneer pluto podium
    <<112,111,114,116,97,108>>, <<112,111,116,97,116,111>>, <<112,114,105,122,101>>,  \* 978: portal potato prize
    <<112,114,111,99,101,115,115>>, <<112,114,111,116,101,105,110>>, <<112,114,111,120,121>>,  \* 981: process protein proxy
    <<112,117,109,112>>, <<112,117,112,105,108>>, <<112,121,116,104,111,110>>,  \* 984: pump pupil python
    <<113,117,97,108,105,116,121>>, <<113,117,97,114,116,101,114>>, <<113,117,105,101,116>>,  \* 987: quality quarter quiet
    <<114,97,98,98,105,116>>, <<114,97,100,105,99,97,108>>, <<114,97,100,105,117,115>>,  \* 990: rabbit radical radius
    <<114,97,105,110,98,111,119>>, <<114,97,108,112,104>>, <<114,97,109,105,114,101,122>>,  \* 993: rainbow ralph ramirez
    <<114,97,118,105,111,108,105>>, <<114,97,121,109,111,110,100>>, <<114,101,115,112,101,99,116>>,  \* 996: ravioli raymond respect
    <<114,101,115,112,111,110,100>>, <<114,101,115,117,108,116>>, <<114,101,115,117,109,101>>,  \* 999: respond result resume
    <<114,101,116,114,111>>, <<114,105,99,104,97,114,100>>, <<114,105,103,104,116>>,  \* 1002: retro richard right
    <<114,105,115,107>>, <<114,105,118,101,114>>, <<114,111,103,101,114>>,  \* 1005: risk river roger
    <<114,111,109,97,110>>, <<114,111,110,100,111>>, <<115,97,98,114,105,110,97>>,  \* 1008: roman rondo sabrina
    <<115,97,108,97,114,121>>, <<115,97,108,115,97>>, <<115,97,109,112,108,101>>,  \* 1011: salary salsa sample
    <<115,97,109,117,101,108>>, <<115,97,116,117,114,110>>, <<115,97,118,97,103,101>>,  \* 1014: samuel saturn savage
    <<115,99,97,114,108,101,116>>, <<115,99,111,111,112>>, <<115,99,111,114,112,105,111>>,  \* 1017: scarlet scoop scorpio
    <<115,99,114,97,116,99,104>>, <<115,99,114,111,108,108>>, <<115,101,99,116,111,114>>,  \* 1020: scratch scroll sector
    <<115,101,114,112,101,110,116>>, <<115,104,97,100,111,119>>, <<115,104,97,109,112,111,111>>,  \* 1023: serpent shadow shampoo
    <<115,104,97,114,111,110>>, <<115,104,97,114,112>>, <<115,104,111,114,116>>,  \* 1026: sharon sharp short
    <<115,104,114,105,110,107>>, <<115,105,108,101,110,99,101>>, <<115,105,108,107>>,  \* 1029: shrink silence silk
    <<115,105,109,112,108,101>>, <<115,108,97,110,103>>, <<115,109,97,114,116>>,  \* 1032: simple slang smart
    <<115,109,111,107,101>>, <<115,110,97,107,101>>, <<115,111,99,105,101,116,121>>,  \* 1035: smoke snake society
    <<115,111,110,97,114>>, <<115,111,110,97,116,97>>, <<115,111,112,114,97,110,111>>,  \* 1038: sonar sonata soprano
    <<115,111,117,114,99,101>>, <<115,112,97,114,116,97>>, <<115,112,104,101,114,101>>,  \* 1041: source sparta sphere
    <<115,112,105,100,101,114>>, <<115,112,111,110,115,111,114>>, <<115,112,114,105,110,103>>,  \* 1044: spider sponsor spring
    <<97,99,105,100>>, <<97,100,105,111,115>>, <<97,103,97,116,104,97>>,  \* 1047: acid adios agatha
    <<97,108,97,109,111>>, <<97,108,101,114,116>>, <<97,108,109,97,110,97,99>>,  \* 1050: alamo alert almanac
    <<97,108,111,104,97>>, <<97,110,100,114,101,97>>, <<97,110,105,116,97>>,  \* 1053: aloha andrea anita
    <<97,114,99,97,100,101>>, <<97,117,114,111,114,97>>, <<97,118,97,108,111,110>>,  \* 1056: arcade aurora avalon
    <<98,97,98,121>>, <<98,97,103,103,97,103,101>>, <<98,97,108,108,111,111,110>>,  \* 1059: baby baggage balloon
    <<98,97,110,107>>, <<98,97,115,105,108>>, <<98,101,103,105,110>>,  \* 1062: bank basil begin
    <<98,105,115,99,117,105,116>>, <<98,108,117,101>>, <<98,111,109,98,97,121>>,  \* 1065: biscuit blue bombay
    <<98,114,97,105,110>>, <<98,114,101,110,100,97>>, <<98,114,105,103,97,100,101>>,  \* 1068: brain brenda brigade
    <<99,97,98,108,101>>, <<99,97,114,109,101,110>>, <<99,101,108,108,111>>,  \* 1071: cable carmen cello
    <<99,101,108,116,105,99>>, <<99,104,97,114,105,111,116>>, <<99,104,114,111,109,101>>,  \* 1074: celtic chariot chrome
    <<99,105,116,114,117,115>>, <<99,105,118,105,108>>, <<99,108,111,117,100>>,  \* 1077: citrus civil cloud
    <<99,111,109,109,111,110>>, <<99,111,109,112,97,114,101>>, <<99,111,111,108>>,  \* 1080: common compare cool
    <<99,111,112,112,101,114>>, <<99,111,114,97,108>>, <<99,114,97,116,101,114>>,  \* 1083: copper coral crater
    <<99,117,98,105,99>>, <<99,117,112,105,100>>, <<99,121,99,108,101>>,  \* 1086: cubic cupid cycle
    <<100,101,112,101,110,100>>, <<100,111,111,114>>, <<100,114,101,97,109>>,  \* 1089: depend door dream
    <<100,121,110,97,115,116,121>>, <<101,100,105,115,111,110>>, <<101,100,105,116,105,111,110>>,  \* 1092: dynasty edison edition
    <<101,110,105,103,109,97>>, <<101,113,117,97,108>>, <<101,114,105,99>>,  \* 1095: enigma equal eric
    <<101,118,101,110,116>>, <<101,118,105,116,97>>, <<101,120,111,100,117,115>>,  \* 1098: event evita exodus
    <<101,120,116,101,110,100>>, <<102,97,109,111,117,115>>, <<102,97,114,109,101,114>>,  \* 1101: extend famous farmer
    <<102,111,111,100>>, <<102,111,115,115,105,108>>, <<102,114,111,103>>,  \* 1104: food fossil frog
    <<102,114,117,105,116>>, <<103,101,110,101,118,97>>, <<103,101,110,116,108,101>>,  \* 1107: fruit geneva gentle
    <<103,101,111,114,103,101>>, <<103,105,97,110,116>>, <<103,105,108,98,101,114,116>>,  \* 1110: george giant gilbert
    <<103,111,115,115,105,112>>, <<103,114,97,109>>, <<103,114,101,101,107>>,  \* 1113: gossip gram greek
    <<103,114,105,108,108,101>>, <<104,97,109,109,101,114>>, <<104,97,114,118,101,115,116>>,  \* 1116: grille hammer harvest
    <<104,97,122,97,114,100>>, <<104,101,97,118,101,110>>, <<104,101,114,98,101,114,116>>,  \* 1119: hazard heaven herbert
    <<104,101,114,111,105,99>>, <<104,101,120,97,103,111,110>>, <<104,117,115,98,97,110,100>>,  \* 1122: heroic hexagon husband
    <<105,109,109,117,110,101>>, <<105,110,99,97>>, <<105,110,99,104>>,  \* 1125: immune inca inch
    <<105,110,105,116,105,97,108>>, <<105,115,97,98,101,108>>, <<105,118,111,114,121>>,  \* 1128: initial isabel ivory
    <<106,97,115,111,110>>, <<106,101,114,111,109,101>>, <<106,111,101,108>>,  \* 1131: jason jerome joel
    <<106,111,115,104,117,97>>, <<106,111,117,114,110,97,108>>, <<106,117,100,103,101>>,  \* 1134: joshua journal judge
    <<106,117,108,105,101,116>>, <<106,117,109,112>>, <<106,117,115,116,105,99,101>>,  \* 1137: juliet jump justice
    <<107,105,109,111,110,111>>, <<107,105,110,101,116,105,99>>, <<108,101,111,110,105,100>>,  \* 1140: kimono kinetic leonid
    <<108,105,109,97>>, <<109,97,122,101>>, <<109,101,100,117,115,97>>,  \* 1143: lima maze medusa
    <<109,101,109,98,101,114>>, <<109,101,109,112,104,105,115>>, <<109,105,99,104,97,101,108>>,  \* 1146: member memphis michael
    <<109,105,103,117,101,108>>, <<109,105,108,97,110>>, <<109,105,108,101>>,  \* 1149: miguel milan mile
    <<109,105,108,108,101,114>>, <<109,105,109,105,99>>, <<109,105,109,111,115,97>>,  \* 1152: miller mimic mimosa
    <<109,105,115,115,105,111,110>>, <<109,111,110,107,101,121>>, <<109,111,114,97,108>>,  \* 1155: mission monkey moral
    <<109,111,115,101,115>>, <<109,111,117,115,101>>, <<110,97,110,99,121>>,  \* 1158: moses mouse nancy
    <<110,97,116,97,115,104,97>>, <<110,101,98,117,108,97>>, <<110,105,99,107,101,108>>,  \* 1161: natasha nebula nickel
    <<110,105,110,97>>, <<110,111,105,115,101>>, <<111,114,99,104,105,100>>,  \* 1164: nina noise orchid
    <<111,114,101,103,97,110,111>>, <<111,114,105,103,97,109,105>>, <<111,114,105,110,111,99,111>>,  \* 1167: oregano origami orinoco
    <<111,114,105,111,110>>, <<111,116,104,101,108,108,111>>, <<112,97,112,101,114>>,  \* 1170: orion othello paper
    <<112,97,112,114,105,107,97>>, <<112,114,101,108,117,100,101>>, <<112,114,101,112,97,114,101>>,  \* 1173: paprika prelude prepare
    <<112,114,101,116,101,110,100>>, <<112,114,111,102,105,116>>, <<112,114,111,109,105,115,101>>,  \* 1176: pretend profit promise
    <<112,114,111,118,105,100,101>>, <<112,117,122,122,108,101>>, <<114,101,109,111,116,101>>,  \* 1179: provide puzzle remote
    <<114,101,112,97,105,114>>, <<114,101,112,108,121>>, <<114,105,118,97,108>>,  \* 1182: repair reply rival
    <<114,105,118,105,101,114,97>>, <<114,111,98,105,110>>, <<114,111,115,101>>,  \* 1185: riviera robin rose
    <<114,111,118,101,114>>, <<114,117,100,111,108,102>>, <<115,97,103,97>>,  \* 1188: rover rudolf saga
    <<115,97,104,97,114,97>>, <<115,99,104,111,108,97,114>>, <<115,104,101,108,116,101,114>>,  \* 1191: sahara scholar shelter
    <<115,104,105,112>>, <<115,104,111,101>>, <<115,105,103,109,97>>,  \* 1194: ship shoe sigma
    <<115,105,115,116,101,114>>, <<115,108,101,101,112>>, <<115,109,105,108,101>>,  \* 1197: sister sleep smile
    <<115,112,97,105,110>>, <<115,112,97,114,107>>, <<115,112,108,105,116>>,  \* 1200: spain spark split
    <<115,112,114,97,121>>, <<115,113,117,97,114,101>>, <<115,116,97,100,105,117,109>>,  \* 1203: spray square stadium
    <<115,116,97,114>>, <<115,116,111,114,109>>, <<115,116,111,114,121>>,  \* 1206: star storm story
    <<115,116,114,97,110,103,101>>, <<115,116,114,101,116,99,104>>, <<115,116,117,97,114,116>>,  \* 1209: strange stretch stuart
    <<115,117,98,119,97,121>>, <<115,117,103,97,114>>, <<115,117,108,102,117,114>>,  \* 1212: subway sugar sulfur
    <<115,117,109,109,101,114>>, <<115,117,114,118,105,118,101>>, <<115,119,101,101,116>>,  \* 1215: summer survive sweet
    <<115,119,105,109>>, <<116,97,98,108,101>>, <<116,97,98,111,111>>,  \* 1218: swim table taboo
    <<116,97,114,103,101,116>>, <<116,101,97,99,104,101,114>>, <<116,101,108,101,99,111,109>>,  \* 1221: target teacher telecom
    <<116,101,109,112,108,101>>, <<116,105,98,101,116>>, <<116,105,99,107,101,116>>,  \* 1224: temple tibet ticket
    <<116,105,110,97>>, <<116,111,100,97,121>>, <<116,111,103,97>>,  \* 1227: tina today toga
    <<116,111,109,109,121>>, <<116,111,119,101,114>>, <<116,114,105,118,105,97,108>>,  \* 1230: tommy tower trivial
    <<116,117,110,110,101,108>>, <<116,117,114,116,108,101>>, <<116,119,105,110>>,  \* 1233: tunnel turtle twin
    <<117,110,99,108,101>>, <<117,110,105,99,111,114,110>>, <<117,110,105,113,117,101>>,  \* 1236: uncle unicorn unique
    <<117,112,100,97,116,101>>, <<118,97,108,101,114,121>>, <<118,101,103,97>>,  \* 1239: update valery vega
    <<118,101,114,115,105,111,110>>, <<118,111,111,100,111,111>>, <<119,97,114,110,105,110,103>>,  \* 1242: version voodoo warning
    <<119,105,108,108,105,97,109>>, <<119,111,110,100,101,114>>, <<121,101,97,114>>,  \* 1245: william wonder year
    <<121,101,108,108,111,119>>, <<121,111,117,110,103>>, <<97,98,115,101,110,116>>,  \* 1248: yellow young absent
    <<97,98,115,111,114,98>>, <<97,99,99,101,110,116>>, <<97,108,102,111,110,115,111>>,  \* 1251: absorb accent alfonso
    <<97,108,105,97,115>>, <<97,109,98,105,101,110,116>>, <<97,110,100,121>>,  \* 1254: alias ambient andy
    <<97,110,118,105,108>>, <<97,112,112,101,97,114>>, <<97,112,114,111,112,111,115>>,  \* 1257: anvil appear apropos
    <<97,114,99,104,101,114>>, <<97,114,105,101,108>>, <<97,114,109,111,114>>,  \* 1260: archer ariel armor
    <<97,114,114,111,119>>, <<97,117,115,116,105,110>>, <<97,118,97,116,97,114>>,  \* 1263: arrow austin avatar
    <<97,120,105,115>>, <<98,97,98,111,111,110>>, <<98,97,104,97,109,97>>,  \* 1266: axis baboon bahama
    <<98,97,108,105>>, <<98,97,108,115,97>>, <<98,97,122,111,111,107,97>>,  \* 1269: bali balsa bazooka
    <<98,101,97,99,104>>, <<98,101,97,115,116>>, <<98,101,97,116,108,101,115>>,  \* 1272: beach beast beatles
    <<98,101,97,117,116,121>>, <<98,101,102,111,114,101>>, <<98,101,110,110,121>>,  \* 1275: beauty before benny
    <<98,101,116,116,121>>, <<98,101,116,119,101,101,110>>, <<98,101,121,111,110,100>>,  \* 1278: betty between beyond
    <<98,105,108,108,121>>, <<98,105,115,111,110>>, <<98,108,97,115,116>>,  \* 1281: billy bison blast
    <<98,108,101,115,115>>, <<98,111,103,97,114,116>>, <<98,111,110,97,110,122,97>>,  \* 1284: bless bogart bonanza
    <<98,111,111,107>>, <<98,111,114,100,101,114>>, <<98,114,97,118,101>>,  \* 1287: book border brave
    <<98,114,101,97,100>>, <<98,114,101,97,107>>, <<98,114,111,107,101,110>>,  \* 1290: bread break broken
    <<98,117,99,107,101,116>>, <<98,117,101,110,111,115>>, <<98,117,102,102,97,108,111>>,  \* 1293: bucket buenos buffalo
    <<98,117,110,100,108,101>>, <<98,117,116,116,111,110>>, <<98,117,122,122,101,114>>,  \* 1296: bundle button buzzer
    <<98,121,116,101>>, <<99,97,101,115,97,114>>, <<99,97,109,105,108,108,97>>,  \* 1299: byte caesar camilla
    <<99,97,110,97,114,121>>, <<99,97,110,100,105,100>>, <<99,97,114,114,111,116>>,  \* 1302: canary candid carrot
    <<99,97,118,101>>, <<99,104,97,110,116>>, <<99,104,105,108,100>>,  \* 1305: cave chant child
    <<99,104,111,105,99,101>>, <<99,104,114,105,115>>, <<99,105,112,104,101,114>>,  \* 1308: choice chris cipher
    <<99,108,97,114,105,111,110>>, <<99,108,97,114,107>>, <<99,108,101,118,101,114>>,  \* 1311: clarion clark clever
    <<99,108,105,102,102>>, <<99,108,111,110,101>>, <<99,111,110,97,110>>,  \* 1314: cliff clone conan
    <<99,111,110,100,117,99,116>>, <<99,111,110,103,111>>, <<99,111,110,116,101,110,116>>,  \* 1317: conduct congo content
    <<99,111,115,116,117,109,101>>, <<99,111,116,116,111,110>>, <<99,111,118,101,114>>,  \* 1320: costume cotton cover
    <<99,114,97,99,107>>, <<99,117,114,114,101,110,116>>, <<100,97,110,117,98,101>>,  \* 1323: crack current danube
    <<100,97,116,97>>, <<100,101,99,105,100,101>>, <<100,101,115,105,114,101>>,  \* 1326: data decide desire
    <<100,101,116,97,105,108>>, <<100,101,120,116,101,114>>, <<100,105,110,110,101,114>>,  \* 1329: detail dexter dinner
    <<100,105,115,112,117,116,101>>, <<100,111,110,111,114>>, <<100,114,117,105,100>>,  \* 1332: dispute donor druid
    <<100,114,117,109>>, <<101,97,115,121>>, <<101,100,100,105,101>>,  \* 1335: drum easy eddie
    <<101,110,106,111,121>>, <<101,110,114,105,99,111>>, <<101,112,111,120,121>>,  \* 1338: enjoy enrico epoxy
    <<101,114,111,115,105,111,110>>, <<101,120,99,101,112,116>>, <<101,120,105,108,101>>,  \* 1341: erosion except exile
    <<101,120,112,108,97,105,110>>, <<102,97,109,101>>, <<102,97,115,116>>,  \* 1344: explain fame fast
    <<102,97,116,104,101,114>>, <<102,101,108,105,120>>, <<102,105,101,108,100>>,  \* 1347: father felix field
    <<102,105,111,110,97>>, <<102,105,114,101>>, <<102,105,115,104>>,  \* 1350: fiona fire fish
    <<102,108,97,109,101>>, <<102,108,101,120>>, <<102,108,105,112,112,101,114>>,  \* 1353: flame flex flipper
    <<102,108,111,97,116>>, <<102,108,111,111,100>>, <<102,108,111,111,114>>,  \* 1356: float flood floor
    <<102,111,114,98,105,100>>, <<102,111,114,101,118,101,114>>, <<102,114,97,99,116,97,108>>,  \* 1359: forbid forever fractal
    <<102,114,97,109,101>>, <<102,114,101,100,100,105,101>>, <<102,114,111,110,116>>,  \* 1362: frame freddie front
    <<102,117,101,108>>, <<103,97,108,108,111,112>>, <<103,97,109,101>>,  \* 1365: fuel gallop game
    <<103,97,114,98,111>>, <<103,97,116,101>>, <<103,105,98,115,111,110>>,  \* 1368: garbo gate gibson
    <<103,105,110,103,101,114>>, <<103,105,114,97,102,102,101>>, <<103,105,122,109,111>>,  \* 1371: ginger giraffe gizmo
    <<103,108,97,115,115>>, <<103,111,98,108,105,110>>, <<103,111,112,104,101,114>>,  \* 1374: glass goblin gopher
    <<103,114,97,99,101>>, <<103,114,97,121>>, <<103,114,101,103,111,114,121>>,  \* 1377: grace gray gregory
    <<103,114,105,100>>, <<103,114,105,102,102,105,110>>, <<103,114,111,117,110,100>>,  \* 1380: grid griffin ground
    <<103,117,101,115,116>>, <<103,117,115,116,97,118>>, <<103,121,114,111>>,  \* 1383: guest gustav gyro
    <<104,97,105,114>>, <<104,97,108,116>>, <<104,97,114,114,105,115>>,  \* 1386: hair halt harris
    <<104,101,97,114,116>>, <<104,101,97,118,121>>, <<104,101,114,109,97,110>>,  \* 1389: heart heavy herman
    <<104,105,112,112,105,101>>, <<104,111,98,98,121>>, <<104,111,110,101,121>>,  \* 1392: hippie hobby honey
    <<104,111,112,101>>, <<104,111,114,115,101>>, <<104,111,115,116,101,108>>,  \* 1395: hope horse hostel
    <<104,121,100,114,111>>, <<105,109,105,116,97,116,101>>, <<105,110,102,111>>,  \* 1398: hydro imitate info
    <<105,110,103,114,105,100>>, <<105,110,115,105,100,101>>, <<105,110,118,101,110,116>>,  \* 1401: ingrid inside invent
    <<105,110,118,101,115,116>>, <<105,110,118,105,116,101>>, <<105,114,111,110>>,  \* 1404: invest invite iron
    <<105,118,97,110>>, <<106,97,109,101,115>>, <<106,101,115,116,101,114>>,  \* 1407: ivan james jester
    <<106,105,109,109,121>>, <<106,111,105,110>>, <<106,111,115,101,112,104>>,  \* 1410: jimmy join joseph
    <<106,117,105,99,101>>, <<106,117,108,105,117,115>>, <<106,117,108,121>>,  \* 1413: juice julius july
    <<106,117,115,116,105,110>>, <<107,97,110,115,97,115>>, <<107,97,114,108>>,  \* 1416: justin kansas karl
    <<107,101,118,105,110>>, <<107,105,119,105>>, <<108,97,100,100,101,114>>,  \* 1419: kevin kiwi ladder
    <<108,97,107,101>>, <<108,97,117,114,97>>, <<108,101,97,114,110>>,  \* 1422: lake laura learn
    <<108,101,103,97,99,121>>, <<108,101,103,101,110,100>>, <<108,101,115,115,111,110>>,  \* 1425: legacy legend lesson
    <<108,105,102,101>>, <<108,105,103,104,116>>, <<108,105,115,116>>,  \* 1428: life light list
    <<108,111,99,97,116,101>>, <<108,111,112,101,122>>, <<108,111,114,101,110,122,111>>,  \* 1431: locate lopez lorenzo
    <<108,111,118,101>>, <<108,117,110,99,104>>, <<109,97,108,116,97>>,  \* 1434: love lunch malta
    <<109,97,109,109,97,108>>, <<109,97,114,103,111>>, <<109,97,114,105,111,110>>,  \* 1437: mammal margo marion
    <<109,97,115,107>>, <<109,97,116,99,104>>, <<109,97,121,100,97,121>>,  \* 1440: mask match mayday
    <<109,101,97,110,105,110,103>>, <<109,101,114,99,121>>, <<109,105,100,100,108,101>>,  \* 1443: meaning mercy middle
    <<109,105,107,101>>, <<109,105,114,114,111,114>>, <<109,111,100,101,115,116>>,  \* 1446: mike mirror modest
    <<109,111,114,112,104>>, <<109,111,114,114,105,115>>, <<110,97,100,105,97>>,  \* 1449: morph morris nadia
    <<110,97,116,111>>, <<110,97,118,121>>, <<110,101,101,100,108,101>>,  \* 1452: nato navy needle
    <<110,101,117,114,111,110>>, <<110,101,118,101,114>>, <<110,101,119,116,111,110>>,  \* 1455: neuron never newton
    <<110,105,99,101>>, <<110,105,103,104,116>>, <<110,105,115,115,97,110>>,  \* 1458: nice night nissan
    <<110,105,116,114,111>>, <<110,105,120,111,110>>, <<110,111,114,116,104>>,  \* 1461: nitro nixon north
    <<111,98,101,114,111,110>>, <<111,99,116,97,118,105,97>>, <<111,104,105,111>>,  \* 1464: oberon octavia ohio
    <<111,108,103,97>>, <<111,112,101,110>>, <<111,112,117,115>>,  \* 1467: olga open opus
    <<111,114,99,97>>, <<111,118,97,108>>, <<111,119,110,101,114>>,  \* 1470: orca oval owner
    <<112,97,103,101>>, <<112,97,105,110,116>>, <<112,97,108,109,97>>,  \* 1473: page paint palma
    <<112,97,114,97,100,101>>, <<112,97,114,101,110,116>>, <<112,97,114,111,108,101>>,  \* 1476: parade parent parole
    <<112,97,117,108>>, <<112,101,97,99,101>>, <<112,101,97,114,108>>,  \* 1479: paul peace pearl
    <<112,101,114,102,111,114,109>>, <<112,104,111,101,110,105,120>>, <<112,104,114,97,115,101>>,  \* 1482: perform phoenix phrase
    <<112,105,101,114,114,101>>, <<112,105,110,98,97,108,108>>, <<112,108,97,99,101>>,  \* 1485: pierre pinball place
    <<112,108,97,116,101>>, <<112,108,97,116,111>>, <<112,108,117,109,101>>,  \* 1488: plate plato plume
    <<112,111,103,111>>, <<112,111,105,110,116>>, <<112,111,108,105,116,101>>,  \* 1491: pogo point polite
    <<112,111,108,107,97>>, <<112,111,110,99,104,111>>, <<112,111,119,100,101,114>>,  \* 1494: polka poncho powder
    <<112,114,97,103,117,101>>, <<112,114,101,115,115>>, <<112,114,101,115,116,111>>,  \* 1497: prague press presto
    <<112,114,101,116,116,121>>, <<112,114,105,109,101>>, <<112,114,111,109,111>>,  \* 1500: pretty prime promo
    <<113,117,97,115,105>>, <<113,117,101,115,116>>, <<113,117,105,99,107>>,  \* 1503: quasi quest quick
    <<113,117,105,122>>, <<113,117,111,116,97>>, <<114,97,99,101>>,  \* 1506: quiz quota race
    <<114,97,99,104,101,108>>, <<114,97,106,97>>, <<114,97,110,103,101,114>>,  \* 1509: rachel raja ranger
    <<114,101,103,105,111,110>>, <<114,101,109,97,114,107>>, <<114,101,110,116>>,  \* 1512: region remark rent
    <<114,101,119,97,114,100>>, <<114,104,105,110,111>>, <<114,105,98,98,111,110>>,  \* 1515: reward rhino ribbon
    <<114,105,100,101,114>>, <<114,111,97,100>>, <<114,111,100,101,110,116>>,  \* 1518: rider road rodent
    <<114,111,117,110,100>>, <<114,117,98,98,101,114>>, <<114,117,98,121>>,  \* 1521: round rubber ruby
    <<114,117,102,117,115>>, <<115,97,98,105,110,101>>, <<115,97,100,100,108,101>>,  \* 1524: rufus sabine saddle
    <<115,97,105,108,111,114>>, <<115,97,105,110,116>>, <<115,97,108,116>>,  \* 1527: sailor saint salt
    <<115,97,116,105,114,101>>, <<115,99,97,108,101>>, <<115,99,117,98,97>>,  \* 1530: satire scale scuba
    <<115,101,97,115,111,110>>, <<115,101,99,117,114,101>>, <<115,104,97,107,101>>,  \* 1533: season secure shake
    <<115,104,97,108,108,111,119>>, <<115,104,97,110,110,111,110>>, <<115,104,97,118,101>>,  \* 1536: shallow shannon shave
    <<115,104,101,108,102>>, <<115,104,101,114,109,97,110>>, <<115,104,105,110,101>>,  \* 1539: shelf sherman shine
    <<115,104,105,114,116>>, <<115,105,100,101>>, <<115,105,110,97,116,114,97>>,  \* 1542: shirt side sinatra
    <<115,105,110,99,101,114,101>>, <<115,105,122,101>>, <<115,108,97,108,111,109>>,  \* 1545: sincere size slalom
    <<115,108,111,119>>, <<115,109,97,108,108>>, <<115,110,111,119>>,  \* 1548: slow small snow
    <<115,111,102,105,97>>, <<115,111,110,103>>, <<115,111,117,110,100>>,  \* 1551: sofia song sound
    <<115,111,117,116,104>>, <<115,112,101,101,99,104>>, <<115,112,101,108,108>>,  \* 1554: south speech spell
    <<115,112,101,110,100>>, <<115,112,111,111,110>>, <<115,116,97,103,101>>,  \* 1557: spend spoon stage
    <<115,116,97,109,112>>, <<115,116,97,110,100>>, <<115,116,97,116,101>>,  \* 1560: stamp stand state
    <<115,116,101,108,108,97>>, <<115,116,105,99,107>>, <<115,116,105,110,103>>,  \* 1563: stella stick sting
    <<115,116,111,99,107>>, <<115,116,111,114,101>>, <<115,117,110,100,97,121>>,  \* 1566: stock store sunday
    <<115,117,110,115,101,116>>, <<115,117,112,112,111,114,116>>, <<115,119,101,100,101,110>>,  \* 1569: sunset support sweden
    <<115,119,105,110,103>>, <<116,97,112,101>>, <<116,104,105,110,107>>,  \* 1572: swing tape think
    <<116,104,111,109,97,115>>, <<116,105,99,116,97,99>>, <<116,105,109,101>>,  \* 1575: thomas tictac time
    <<116,111,97,115,116>>, <<116,111,98,97,99,99,111>>, <<116,111,110,105,103,104,116>>,  \* 1578: toast tobacco tonight
    <<116,111,114,99,104>>, <<116,111,114,115,111>>, <<116,111,117,99,104>>,  \* 1581: torch torso touch
    <<116,111,121,111,116,97>>, <<116,114,97,100,101>>, <<116,114,105,98,117,110,101>>,  \* 1584: toyota trade tribune
    <<116,114,105,110,105,116,121>>, <<116,114,105,116,111,110>>, <<116,114,117,99,107>>,  \* 1587: trinity triton truck
    <<116,114,117,115,116>>, <<116,121,112,101>>, <<117,110,100,101,114>>,  \* 1590: trust type under
    <<117,110,105,116>>, <<117,114,98,97,110>>, <<117,114,103,101,110,116>>,  \* 1593: unit urban urgent
    <<117,115,101,114>>, <<118,97,108,117,101>>, <<118,101,110,100,111,114>>,  \* 1596: user value vendor
    <<118,101,110,105,99,101>>, <<118,101,114,111,110,97>>, <<118,105,98,114,97,116,101>>,  \* 1599: venice verona vibrate
    <<118,105,114,103,111>>, <<118,105,115,105,98,108,101>>, <<118,105,115,116,97>>,  \* 1602: virgo visible vista
    <<118,105,116,97,108>>, <<118,111,105,99,101>>, <<118,111,114,116,101,120>>,  \* 1605: vital voice vortex
    <<119,97,105,116,101,114>>, <<119,97,116,99,104>>, <<119,97,118,101>>,  \* 1608: waiter watch wave
    <<119,101,97,116,104,101,114>>, <<119,101,100,100,105,110,103>>, <<119,104,101,101,108>>,  \* 1611: weather wedding wheel
    <<119,104,105,115,107,101,121>>, <<119,105,115,100,111,109>>, <<100,101,97,108>>,  \* 1614: whiskey wisdom deal
    <<110,117,108,108>>, <<110,117,114,115,101>>, <<113,117,101,98,101,99>>,  \* 1617: null nurse quebec
    <<114,101,115,101,114,118,101>>, <<114,101,117,110,105,111,110>>, <<114,111,111,102>>,  \* 1620: reserve reunion roof
    <<115,105,110,103,101,114>>, <<118,101,114,98,97,108>>, <<97,109,101,110>>,  \* 1623: singer verbal amen
    <<101,103,111>>, <<102,97,120>>, <<106,101,116>>,  \* 1626: ego fax jet
    <<106,111,98>>, <<114,105,111>>, <<115,107,105>>,  \* 1629: job rio ski
    <<121,101,115>>  \* 1632: yes
  >>

(***************************************************************************)
(* Bounds of the model and the inputs drawn within them.                    *)
(***************************************************************************)
\* longest source handed to encode
MaxLen == 8

\* most tokens in a text handed to decode
MaxWords == 4

\* most bytes of output the loop of encode is followed for while it has
\* written no word (a template without letters never writes one)
MaxLead == 6

\* byte values of the sources: with them a chunk takes, among others, the
\* values 0, 0xFFFFFF (remainder word 1632), 0x00FFFFFF as a full chunk and
\* 0xFFFFFFFF (the largest)
ByteVals == {0, 255}

\* the sources of the tests (lib.rs:569, 590)
TestSrcs == { <<101, 2, 240, 6, 108, 11, 20, 97>>, <<1, 226, 64>> }

Srcs == UNION {[1..l -> ByteVals] : l \in 0..MaxLen} \cup TestSrcs

\* templates: the default, two that end with a letter, one with a leading
\* separator and longer letter runs, and two without a letter
Formats ==
  { MN_FDEFAULT,
    <<120>>,                                \* "x"
    <<120, 45, 120>>,                       \* "x-x"
    <<32, 97, 98, 44, 32, 67, 68, 46>>,     \* " ab, CD."
    <<45>>,                                 \* "-"
    <<>> }

\* "Yes": a run of letters that is no dictionary word (the table is lowercase)
UnknownToken == <<89, 101, 115>>

\* dictionary indices of the tokens of the texts handed to decode: the first
\* word, the last two base words (1624 is the largest third word of a full
\* chunk) and the first and last remainder words
TokenIdx == {0, 1624, 1625, 1626, 1632}

Tokens == {MN_WORDS[j + 1] : j \in TokenIdx} \cup {UnknownToken}

\* separators put before, between and after the tokens of a text
Layouts ==
  { [lead |-> <<>>,   sep |-> <<45>>,         trail |-> <<>>],      \* a-b-c
    [lead |-> <<32>>, sep |-> <<45, 45>>,     trail |-> <<10>>],    \* " a--b--c\n"
    [lead |-> <<>>,   sep |-> <<44, 32, 49>>, trail |-> <<46, 46>>] \* "a, 1b, 1c.."
  }

RECURSIVE Join(_, _)
Join(ws, sep) ==
  IF ws = <<>> THEN <<>>
  ELSE IF Len(ws) = 1 THEN ws[1]
  ELSE ws[1] \o sep \o Join(Tail(ws), sep)

TokenSeqs == UNION {[1..l -> Tokens] : l \in 0..MaxWords}

\* the two texts at the bound of the third word of a full chunk: indices
\* 489, 807, 1624 stand for 0xFFFFFFFF, and 490, 807, 1624 for 0x100000000
BoundaryTexts ==
  { Join(<<MN_WORDS[489 + 1], MN_WORDS[807 + 1], MN_WORDS[1624 + 1]>>, <<45>>),
    Join(<<MN_WORDS[490 + 1], MN_WORDS[807 + 1], MN_WORDS[1624 + 1]>>, <<45>>) }

Texts ==
  {lay.lead \o Join(ws, lay.sep) \o lay.trail : ws \in TokenSeqs, lay \in Layouts}
    \cup BoundaryTexts

(***************************************************************************)
(* The helpers of the codec, each computed as the source computes it.       *)
(***************************************************************************)

\* lib.rs:473-479  fn is_ascii_alpha(b: u8) -> bool
is_ascii_alpha(b) == (b >= 97 /\ b <= 122) \/ (b >= 65 /\ b <= 90)

\* Option::None of HashMap::get
None == -1

\* a map that numbers the words from 1: map.insert(*word, i as u32 + 1)
MN_WORD_INDEX_from_one ==
  [w \in {MN_WORDS[j] : j \in 1..Len(MN_WORDS)} |->
     CHOOSE j \in 1..Len(MN_WORDS) :
        /\ MN_WORDS[j] = w
        /\ \A p \in 1..Len(MN_WORDS) : MN_WORDS[p] = w => p <= j]

\* lib.rs:367-376  MN_WORD_INDEX: the map built by inserting (word, i) for
\* i = 0, 1, ...: a later insert of the same word replaces the earlier one.
MN_WORD_INDEX ==
  [w \in {MN_WORDS[j] : j \in 1..Len(MN_WORDS)} |->
     CHOOSE j \in 0..(Len(MN_WORDS) - 1) :
        /\ MN_WORDS[j + 1] = w
        /\ \A m \in 0..(Len(MN_WORDS) - 1) : MN_WORDS[m + 1] = w => m <= j]

\* a lookup that takes index 0 for a word the map does not hold
MN_WORD_INDEX_get_or_zero(word) ==
  IF word \in DOMAIN MN_WORD_INDEX THEN MN_WORD_INDEX[word] ELSE 0

\* lib.rs:503  MN_WORD_INDEX.get(word)
MN_WORD_INDEX_get(word) ==
  IF word \in DOMAIN MN_WORD_INDEX THEN MN_WORD_INDEX[word] ELSE None

\* a word count of 3 words for every chunk begun: (src.len() + 3) / 4 * 3
mn_words_required_chunks(s) == ((Len(s) + 3) \div 4) * 3

\* a word count of the whole chunks alone: src.len() / 4 * 3
mn_words_required_whole(s) == (Len(s) \div 4) * 3

\* a word count that rounds the partial chunk down: src.len() * 3 / 4
mn_words_required_floor(s) == (Len(s) * 3) \div 4

\* lib.rs:443-446  fn mn_words_required(src: &[u8]) -> usize
mn_words_required(s) == ((Len(s) + 1) * 3) \div 4

\* lib.rs:452  src[offset..].iter().take(4): the byte at 0-based index j of
\* s, and nothing (0 in the |=) past the end of s
byte_at(s, j) == IF j < Len(s) THEN s[j + 1] ELSE 0

\* lib.rs:451-454  the little-endian u32 of the (up to) 4 bytes of s that
\* start at 0-based index off:  x |= (*b as u32) << (i * 8)
load_le(s, off) ==
  [hi |-> byte_at(s, off + 2) + 256 * byte_at(s, off + 3),
   lo |-> byte_at(s, off) + 256 * byte_at(s, off + 1)]

\* an encoder whose slot 1 divides as slot 2 does: x /= MN_BASE * MN_BASE
mn_encode_index_slot1_as_2(s, m) ==
  LET offset == (m \div 3) * 4
      x0     == load_le(s, offset)
      extra  == IF m % 3 = 2 /\ Len(s) - offset = 3 THEN MN_BASE ELSE 0
      digit  == IF m % 3 = 2 \/ m % 3 = 1
                  THEN (u32_div(x0, MN_BASE) \div MN_BASE) % MN_BASE
                ELSE u32_mod(x0, MN_BASE)
  IN  digit + extra

\* an encoder without the special case for 24 bits (extra stays 0)
mn_encode_index_no_extra(s, m) ==
  LET offset == (m \div 3) * 4
      x0     == load_le(s, offset)
  IN  IF m % 3 = 2 THEN (u32_div(x0, MN_BASE) \div MN_BASE) % MN_BASE
      ELSE IF m % 3 = 1 THEN u32_div(x0, MN_BASE) % MN_BASE
      ELSE u32_mod(x0, MN_BASE)

\* lib.rs:449-471  fn mn_encode_word(src: &[u8], n: usize): the index of the
\* word in MN_WORDS.  x / (MN_BASE * MN_BASE) is computed as (x / MN_BASE) /
\* MN_BASE, the same number.
mn_encode_index(s, m) ==
  LET offset == (m \div 3) * 4
      x0     == load_le(s, offset)
      extra  == IF m % 3 = 2 /\ Len(s) - offset = 3 THEN MN_BASE ELSE 0
      digit  == IF m % 3 = 2 THEN (u32_div(x0, MN_BASE) \div MN_BASE) % MN_BASE
                ELSE IF m % 3 = 1 THEN u32_div(x0, MN_BASE) % MN_BASE
                ELSE u32_mod(x0, MN_BASE)
  IN  digit + extra

\* lib.rs:470  MN_WORDS[(x % MN_BASE + extra) as usize]
mn_encode_word(s, m) == MN_WORDS[mn_encode_index(s, m) + 1]

\* LittleEndian::write_u32 (lib.rs:507, 515): the 4 bytes of a u32, low first
LE32(v) == << v.lo % 256, v.lo \div 256, v.hi % 256, v.hi \div 256 >>

\* lib.rs:500  src.split(|c| !is_ascii_alpha(*c)): the pieces between the
\* bytes that are no letters, the empty pieces included (one piece more than
\* there are such bytes)
RECURSIVE split(_, _, _)
split(s, cur, acc) ==
  IF s = <<>> THEN Append(acc, cur)
  ELSE IF ~is_ascii_alpha(Head(s)) THEN split(Tail(s), <<>>, Append(acc, cur))
  ELSE split(Tail(s), Append(cur, Head(s)), acc)

\* the words without the filter: the empty pieces stay
split_words_keep_empty(s) == split(s, <<>>, <<>>)

\* lib.rs:500-501  the words decode iterates over: .filter(|w| !w.is_empty())
split_words(s) == SelectSeq(split(s, <<>>, <<>>), LAMBDA w : w # <<>>)

\* a step of the decoder: the error ("" for Ok(())) and the new x and offset
Step(e, xx, off) == [err |-> e, x |-> xx, offset |-> off]

\* a step whose first test is index > MN_BASE: the first remainder word
\* passes it at any offset
mn_decode_word_index_gt(index, x0, offset0) ==
  IF index > MN_BASE /\ offset0 % 4 # 2
    THEN Step("UnexpectedRemainderWord", x0, offset0)
  ELSE IF offset0 % 4 = 3
    THEN Step("DataPastRemainder", x0, offset0)
  ELSE IF offset0 % 4 = 2 /\ index >= MN_BASE
    THEN Step("", u32_add(x0, u32_mul(u32_mul(u32(index - MN_BASE), MN_BASE), MN_BASE)),
              offset0 + 1)
  ELSE IF offset0 % 4 = 2
    THEN IF index >= 1625 \/ (index = 1624 /\ u32_gt(x0, 1312671))
           THEN Step("InvalidEncoding", x0, offset0)
           ELSE Step("", u32_add(x0, u32_mul(u32_mul(u32(index), MN_BASE), MN_BASE)),
                     offset0 + 2)
  ELSE IF offset0 % 4 = 1
    THEN Step("", u32_add(x0, u32_mul(u32(index), MN_BASE)), offset0 + 1)
  ELSE Step("", u32(index), offset0 + 1)

\* a step without the arm for offset % 4 == 3: a word past the remainder
\* starts a chunk, as at offset % 4 == 0
mn_decode_word_index_no_past(index, x0, offset0) ==
  IF index >= MN_BASE /\ offset0 % 4 # 2
    THEN Step("UnexpectedRemainderWord", x0, offset0)
  ELSE IF offset0 % 4 = 2 /\ index >= MN_BASE
    THEN Step("", u32_add(x0, u32_mul(u32_mul(u32(index - MN_BASE), MN_BASE), MN_BASE)),
              offset0 + 1)
  ELSE IF offset0 % 4 = 2
    THEN IF index >= 1625 \/ (index = 1624 /\ u32_gt(x0, 1312671))
           THEN Step("InvalidEncoding", x0, offset0)
           ELSE Step("", u32_add(x0, u32_mul(u32_mul(u32(index), MN_BASE), MN_BASE)),
                     offset0 + 2)
  ELSE IF offset0 % 4 = 1
    THEN Step("", u32_add(x0, u32_mul(u32(index), MN_BASE)), offset0 + 1)
  ELSE Step("", u32(index), offset0 + 1)

\* a step whose test of the third word is one too high: *x > 1312672
mn_decode_word_index_late(index, x0, offset0) ==
  IF index >= MN_BASE /\ offset0 % 4 # 2
    THEN Step("UnexpectedRemainderWord", x0, offset0)
  ELSE IF offset0 % 4 = 3
    THEN Step("DataPastRemainder", x0, offset0)
  ELSE IF offset0 % 4 = 2 /\ index >= MN_BASE
    THEN Step("", u32_add(x0, u32_mul(u32_mul(u32(index - MN_BASE), MN_BASE), MN_BASE)),
              offset0 + 1)
  ELSE IF offset0 % 4 = 2
    THEN IF index >= 1625 \/ (index = 1624 /\ u32_gt(x0, 1312672))
           THEN Step("InvalidEncoding", x0, offset0)
           ELSE Step("", u32_add(x0, u32_mul(u32_mul(u32(index), MN_BASE), MN_BASE)),
                     offset0 + 2)
  ELSE IF offset0 % 4 = 1
    THEN Step("", u32_add(x0, u32_mul(u32(index), MN_BASE)), offset0 + 1)
  ELSE Step("", u32(index), offset0 + 1)

\* lib.rs:522-552  fn mn_decode_word_index(index, x: &mut u32, offset: &mut usize)
mn_decode_word_index(index, x0, offset0) ==
  IF index >= MN_BASE /\ offset0 % 4 # 2
    THEN Step("UnexpectedRemainderWord", x0, offset0)
  ELSE IF offset0 % 4 = 3
    THEN Step("DataPastRemainder", x0, offset0)
  ELSE IF offset0 % 4 = 2 /\ index >= MN_BASE
    THEN Step("", u32_add(x0, u32_mul(u32_mul(u32(index - MN_BASE), MN_BASE), MN_BASE)),
              offset0 + 1)
  ELSE IF offset0 % 4 = 2
    THEN IF index >= 1625 \/ (index = 1624 /\ u32_gt(x0, 1312671))
           THEN Step("InvalidEncoding", x0, offset0)
           ELSE Step("", u32_add(x0, u32_mul(u32_mul(u32(index), MN_BASE), MN_BASE)),
                     offset0 + 2)
  ELSE IF offset0 % 4 = 1
    THEN Step("", u32_add(x0, u32_mul(u32(index), MN_BASE)), offset0 + 1)
  ELSE Step("", u32(index), offset0 + 1)

\* lib.rs:554-559  fn mn_decode_finish(x: u32, remainder: usize): "" for Ok(())
mn_decode_finish(x0, remainder) ==
  IF (remainder = 2 /\ u32_gt(x0, 65535)) \/ (remainder = 1 /\ u32_gt(x0, 255))
    THEN "UnexpectedRemainder"
    ELSE ""

\* trailing bytes that are the whole of buf: &buf
trailing_bytes_whole_buf(x0, remainder) == LE32(x0)

\* lib.rs:513-517  the trailing bytes decode writes: &buf[..remainder]
trailing_bytes(x0, remainder) == SubSeq(LE32(x0), 1, remainder)

\* lib.rs:503-510  the body of decode's loop for one word, on the state
\* st = [err, x, offset, dest]: look the word up, fold its index into x and
\* write x out when a 4-byte chunk is complete
decode_word(st, word) ==
  LET idx == MN_WORD_INDEX_get(word)
      r   == mn_decode_word_index(idx, st.x, st.offset)
  IN  IF idx = None
        THEN [st EXCEPT !.err = "UnrecognizedWord"]
      ELSE IF r.err # ""
        THEN [st EXCEPT !.err = r.err]
      ELSE IF r.offset % 4 = 0
        THEN [err |-> "", x |-> u32(0), offset |-> r.offset, dest |-> st.dest \o LE32(r.x)]
      ELSE [err |-> "", x |-> r.x, offset |-> r.offset, dest |-> st.dest]

\* the result of a call: none yet, Ok(v), Err(e), or a panic
NoRes    == [tag |-> "None",  err |-> "", val |-> 0]
Ok(v)    == [tag |-> "Ok",    err |-> "", val |-> v]
Err(e)   == [tag |-> "Err",   err |-> e,  val |-> 0]
Panicked == [tag |-> "Panic", err |-> "index out of bounds", val |-> 0]

\* the validation run before the trailing bytes are written: a failed call
\* leaves dest as the loop left it
decode_end_validate_first(st) ==
  LET remainder == st.offset % 4
      e         == mn_decode_finish(st.x, remainder)
  IN  [dest |-> IF remainder > 0 /\ e = "" THEN st.dest \o trailing_bytes(st.x, remainder)
                ELSE st.dest,
       res  |-> IF e # "" THEN Err(e) ELSE Ok(st.offset)]

\* lib.rs:511-519  decode after its loop, on the state st: write any trailing
\* bytes, then mn_decode_finish(x, remainder)?, then Ok(offset)
decode_end(st) ==
  LET remainder == st.offset % 4
      e         == mn_decode_finish(st.x, remainder)
  IN  [dest |-> IF remainder > 0 THEN st.dest \o trailing_bytes(st.x, remainder)
                ELSE st.dest,
       res  |-> IF e # "" THEN Err(e) ELSE Ok(st.offset)]

\* an `if` for the inner `while`: at most one separator is copied
skip_separators_one(f, i0) ==
  IF i0 < Len(f) /\ ~is_ascii_alpha(f[i0 + 1]) THEN i0 + 1 ELSE i0

\* lib.rs:411-414  the inner loop of encode_with_format over the separators:
\* the first index j >= i0 with j = format.len() or format[j] a letter
RECURSIVE skip_separators(_, _)
skip_separators(f, i0) ==
  IF i0 < Len(f) /\ ~is_ascii_alpha(f[i0 + 1]) THEN skip_separators(f, i0 + 1) ELSE i0

\* lib.rs:419-421  while is_ascii_alpha(format[i]) { i += 1 }: the first index
\* k >= i0 at which the loop stops; k = format.len() is the index at which
\* format[i] is out of bounds, and the call panics
RECURSIVE skip_letters(_, _)
skip_letters(f, i0) ==
  IF i0 < Len(f) /\ is_ascii_alpha(f[i0 + 1]) THEN skip_letters(f, i0 + 1) ELSE i0

(***************************************************************************)
(* The program: calls of encode_with_format and decode, one action per      *)
(* iteration of their loops.  dest of either call is a Vec<u8>, whose       *)
(* writes never fail (the tests and to_string).                             *)
(***************************************************************************)
VARIABLES
  pc,         \* "idle", "encode", "encode_done", "decode", "decode_done"
  res,        \* the result of the call
  chain,      \* "none"; "enc_dec": decode of the encoder's output
              \* (quickcheck_round_trip); "dec_enc": encode of the decoder's output
  src,        \* encode: the source bytes
  format,     \* encode: the template
  num_words,  \* encode: mn_words_required(src)
  n,          \* encode: words written
  i,          \* encode: index within format
  out,        \* encode: the bytes written to dest
  text,       \* decode: the input (src of decode)
  words,      \* decode: the words of text
  k,          \* decode: how many of them the loop has taken
  x,          \* decode: the 32-bit accumulator, a u32
  offset,     \* decode: number of bytes decoded so far
  dest        \* decode: the bytes written to dest

vars == << pc, res, chain, src, format, num_words, n, i, out,
           text, words, k, x, offset, dest >>

encVars == << src, format, num_words, n, i, out >>
decVars == << text, words, k, x, offset, dest >>

Init ==
  /\ pc = "idle" /\ res = NoRes /\ chain = "none"
  /\ src = <<>> /\ format = <<>> /\ num_words = 0 /\ n = 0 /\ i = 0 /\ out = <<>>
  /\ text = <<>> /\ words = <<>> /\ k = 0 /\ x = u32(0) /\ offset = 0 /\ dest = <<>>

\* lib.rs:403-408  the entry of encode_with_format(s, f, dest)
encode_entry(s, f) ==
  /\ pc' = "encode" /\ res' = NoRes
  /\ src' = s /\ format' = f
  /\ num_words' = mn_words_required(s)
  /\ n' = 0 /\ i' = 0 /\ out' = <<>>

\* lib.rs:496-501  the entry of decode(t, dest)
decode_entry(t) ==
  /\ pc' = "decode" /\ res' = NoRes
  /\ text' = t /\ words' = split_words(t)
  /\ k' = 0 /\ x' = u32(0) /\ offset' = 0 /\ dest' = <<>>

\* lib.rs:398-402  a call of encode_with_format (encode: f = MN_FDEFAULT)
CallEncode ==
  /\ pc = "idle"
  /\ \E s \in Srcs, f \in Formats : encode_entry(s, f)
  /\ chain' = "none"
  /\ UNCHANGED decVars

\* lib.rs:493-495  a call of decode
CallDecode ==
  /\ pc = "idle"
  /\ \E t \in Texts : decode_entry(t)
  /\ chain' = "none"
  /\ UNCHANGED encVars

\* lib.rs:604-606  quickcheck_round_trip: decode(to_string(&src), &mut decoded)
DecodeEncoded ==
  /\ pc = "encode_done" /\ res.tag = "Ok" /\ chain = "none"
  /\ decode_entry(out)
  /\ chain' = "enc_dec"
  /\ UNCHANGED encVars

\* lib.rs:388-393  encode of the bytes a decode has written
EncodeDecoded ==
  /\ pc = "decode_done" /\ res.tag = "Ok" /\ chain = "none"
  /\ encode_entry(dest, MN_FDEFAULT)
  /\ chain' = "dec_enc"
  /\ UNCHANGED decVars

\* lib.rs:410-418  an iteration that copies separators up to the end of the
\* template and wraps: i = 0; continue
EncodeWrap ==
  /\ pc = "encode" /\ n < num_words
  /\ n > 0 \/ Len(out) < MaxLead
  /\ LET j == skip_separators(format, i)
     IN  /\ j = Len(format)
         /\ out' = out \o SubSeq(format, i + 1, j)
         /\ i' = 0
  /\ UNCHANGED << pc, res, chain, src, format, num_words, n >>
  /\ UNCHANGED decVars

\* lib.rs:410-424  an iteration that copies separators, skips a run of
\* letters and writes the next word
EncodeWord ==
  /\ pc = "encode" /\ n < num_words
  /\ LET j == skip_separators(format, i)
         m == skip_letters(format, j)
     IN  /\ j < Len(format)
         /\ m < Len(format)
         /\ out' = out \o SubSeq(format, i + 1, j) \o mn_encode_word(src, n)
         /\ i' = m
         /\ n' = n + 1
  /\ UNCHANGED << pc, res, chain, src, format, num_words >>
  /\ UNCHANGED decVars

\* lib.rs:419  an iteration whose run of letters reaches the end of the
\* template: format[i] with i = format.len() panics, before the word is written
EncodePanic ==
  /\ pc = "encode" /\ n < num_words
  /\ LET j == skip_separators(format, i)
         m == skip_letters(format, j)
     IN  /\ j < Len(format)
         /\ m = Len(format)
         /\ out' = out \o SubSeq(format, i + 1, j)
         /\ i' = m
  /\ pc' = "encode_done" /\ res' = Panicked
  /\ UNCHANGED << chain, src, format, num_words, n >>
  /\ UNCHANGED decVars

\* lib.rs:410, 425  n < num_words fails: Ok(())
EncodeReturn ==
  /\ pc = "encode" /\ ~(n < num_words)
  /\ pc' = "encode_done" /\ res' = Ok(0)
  /\ UNCHANGED << chain >>
  /\ UNCHANGED encVars
  /\ UNCHANGED decVars

\* lib.rs:502-510  one iteration of decode's loop
DecodeWord ==
  /\ pc = "decode" /\ k < Len(words)
  /\ LET st == decode_word([err |-> "", x |-> x, offset |-> offset, dest |-> dest],
                           words[k + 1])
     IN  /\ k' = k + 1
         /\ x' = st.x /\ offset' = st.offset /\ dest' = st.dest
         /\ IF st.err # ""
              THEN pc' = "decode_done" /\ res' = Err(st.err)
              ELSE UNCHANGED << pc, res >>
  /\ UNCHANGED << chain, text, words >>
  /\ UNCHANGED encVars

\* lib.rs:511-519  after the loop: write any trailing bytes, mn_decode_finish
DecodeFinish ==
  /\ pc = "decode" /\ k = Len(words)
  /\ LET r == decode_end([err |-> "", x |-> x, offset |-> offset, dest |-> dest])
     IN  dest' = r.dest /\ res' = r.res
  /\ pc' = "decode_done"
  /\ UNCHANGED << chain, text, words, k, x, offset >>
  /\ UNCHANGED encVars

Next ==
  \/ CallEncode
  \/ CallDecode
  \/ DecodeEncoded
  \/ EncodeDecoded
  \/ EncodeWrap
  \/ EncodeWord
  \/ EncodePanic
  \/ EncodeReturn
  \/ DecodeWord
  \/ DecodeFinish

Spec == Init /\ [][Next]_vars

(***************************************************************************)
(* The notions the properties are stated in, defined on the text itself.    *)
(***************************************************************************)
IsLetter(b) == b \in (65..90) \cup (97..122)

\* the last position of the maximal run of letters that starts at a
RunEnd(t, a) ==
  CHOOSE b \in a..Len(t) :
    /\ \A c \in a..b : IsLetter(t[c])
    /\ b = Len(t) \/ ~IsLetter(t[b + 1])

\* the maximal runs of ASCII letters of t from position a on, where a is 1
\* or follows a byte that is no letter
RECURSIVE RunsFrom(_, _)
RunsFrom(t, a) ==
  IF a > Len(t) THEN <<>>
  ELSE IF ~IsLetter(t[a]) THEN RunsFrom(t, a + 1)
  ELSE <<SubSeq(t, a, RunEnd(t, a))>> \o RunsFrom(t, RunEnd(t, a) + 1)

\* the tokens of t: its maximal runs of ASCII letters, in order
LetterRuns(t) == RunsFrom(t, 1)

HasLetter(t) == \E a \in 1..Len(t) : IsLetter(t[a])

\* the words of the dictionary, as a set
DictionaryWords == {MN_WORDS[j] : j \in 1..Len(MN_WORDS)}

InDictionary(w) == w \in DictionaryWords

\* a remainder word: one of the MN_REMAINDER entries from index MN_BASE on
IsRemainderWord(w) ==
  \E j \in MN_BASE..(MN_BASE + MN_REMAINDER - 1) : MN_WORDS[j + 1] = w

(***************************************************************************)
(* C1  Round trip: for every byte sequence b, encode with the default       *)
(* template returns Ok, and decoding its output succeeds, returns Len(b)    *)
(* and writes exactly b.                                                    *)
(***************************************************************************)
C1_RoundTrip ==
  /\ (pc = "encode_done" /\ format = MN_FDEFAULT) => res = Ok(0)
  /\ (pc = "decode_done" /\ chain = "enc_dec" /\ format = MN_FDEFAULT)
       => (res = Ok(Len(src)) /\ dest = src)

\* a round trip of 7 bytes: a full chunk 0xFFFFFFFF and a 3-byte tail
C1_Witness ==
  /\ pc = "decode_done" /\ chain = "enc_dec" /\ format = MN_FDEFAULT
  /\ src = <<255, 255, 255, 255, 0, 255, 255>>
  /\ dest = src

(***************************************************************************)
(* C2  Word count: while encode runs, the words written number n, at most   *)
(* floor((L+1)*3/4); when it returns Ok their number is exactly             *)
(* floor((L+1)*3/4), and the last word is the last thing written (the loop  *)
(* stops once that many words are out).                                     *)
(***************************************************************************)
C2_WordCount ==
  /\ pc \in {"encode", "encode_done"}
       => /\ Len(LetterRuns(out)) = n
          /\ n <= ((Len(src) + 1) * 3) \div 4
  /\ (pc = "encode_done" /\ res.tag = "Ok")
       => /\ Len(LetterRuns(out)) = ((Len(src) + 1) * 3) \div 4
          /\ out # <<>> => IsLetter(out[Len(out)])

\* the 8 bytes of the test return with 6 words
C2_Witness ==
  /\ pc = "encode_done" /\ res.tag = "Ok" /\ format = MN_FDEFAULT
  /\ Len(src) = 8 /\ Len(LetterRuns(out)) = 6

(***************************************************************************)
(* C3  Any template with a run of ASCII letters works: the call returns Ok  *)
(* after writing all mn_words_required words.  (The code panics when a run  *)
(* of letters ends the template.)                                           *)
(***************************************************************************)
C3_LetterTemplateWorks ==
  (pc = "encode_done" /\ HasLetter(format))
     => (res.tag = "Ok" /\ n = num_words)

(***************************************************************************)
(* C4  The codec is bijective: a word sequence that decode accepts is       *)
(* reproduced word for word by encoding the bytes decode wrote (so no two   *)
(* accepted word sequences decode to the same bytes).  (The code accepts a  *)
(* 3-byte tail whose value exceeds 0xFFFFFF, see C8, and so decodes two     *)
(* word sequences to the same bytes.)                                       *)
(***************************************************************************)
C4_ReencodeReproducesWords ==
  (pc = "encode_done" /\ chain = "dec_enc" /\ res.tag = "Ok")
     => LetterRuns(out) = LetterRuns(text)

(***************************************************************************)
(* C5  As claimed: decoding a text with a token that is no dictionary word  *)
(* yields UnrecognizedWord, whatever tokens come before it.                 *)
(***************************************************************************)
C5_UnknownAlwaysUnrecognized ==
  pc = "decode_done"
    => LET runs == LetterRuns(text)
       IN  (\E j \in 1..Len(runs) : ~InDictionary(runs[j]))
             => res = Err("UnrecognizedWord")

\* the position of the first of the tokens that is no dictionary word
FirstUnknown(runs) ==
  CHOOSE j \in 1..Len(runs) :
    /\ ~InDictionary(runs[j])
    /\ \A m \in 1..(j - 1) : InDictionary(runs[m])

(***************************************************************************)
(* C5  As amended: decoding a text with a token that is no dictionary word  *)
(* always fails, at or before the first such token; the error is            *)
(* UnrecognizedWord exactly when the decoder gets as far as that token,     *)
(* that is when it has accepted every token before it; otherwise it is the  *)
(* error of the earlier token the decoder rejected.                         *)
(***************************************************************************)
C5_UnknownRejected ==
  pc = "decode_done"
    => LET runs == LetterRuns(text)
       IN  (\E j \in 1..Len(runs) : ~InDictionary(runs[j]))
             => LET u == FirstUnknown(runs)
                IN  /\ res.tag = "Err"
                    /\ k <= u
                    /\ (res.err = "UnrecognizedWord") <=> (k = u)
                    /\ k < u => res.err \in {"UnexpectedRemainderWord",
                                              "DataPastRemainder", "InvalidEncoding"}

\* an unknown token met after two accepted words
C5_Witness ==
  /\ pc = "decode_done" /\ res = Err("UnrecognizedWord")
  /\ k = 3 /\ ~InDictionary(words[3]) /\ offset = 2

(***************************************************************************)
(* C6  A remainder word met at slot 0 or 1 of a chunk (offset mod 4 is 0 or *)
(* 1) makes decode fail with UnexpectedRemainderWord; a remainder word is   *)
(* accepted only at offset mod 4 = 2.                                       *)
(***************************************************************************)
C6_RemainderWordOutOfPlace ==
  [][ (pc = "decode" /\ k < Len(words) /\ IsRemainderWord(words[k + 1]))
        => /\ offset % 4 \in {0, 1}
              => (pc' = "decode_done" /\ res' = Err("UnexpectedRemainderWord"))
           /\ pc' = "decode" => offset % 4 = 2 ]_vars

\* a remainder word rejected at slot 1
C6_Witness ==
  /\ pc = "decode_done" /\ res = Err("UnexpectedRemainderWord")
  /\ k = 2 /\ IsRemainderWord(words[2]) /\ offset % 4 = 1

(***************************************************************************)
(* C7  As claimed: once a remainder word has closed a 3-byte chunk (offset  *)
(* mod 4 = 3), any further dictionary word, base or remainder, makes decode *)
(* fail with DataPastRemainder.                                             *)
(***************************************************************************)
C7_AnyWordPastRemainder ==
  [][ (pc = "decode" /\ k < Len(words) /\ offset % 4 = 3 /\ InDictionary(words[k + 1]))
        => (pc' = "decode_done" /\ res' = Err("DataPastRemainder")) ]_vars

(***************************************************************************)
(* C7  As amended: once a remainder word has closed a 3-byte chunk (offset  *)
(* mod 4 = 3), any further dictionary word makes decode fail: with          *)
(* DataPastRemainder when it is a base word, with UnexpectedRemainderWord   *)
(* when it is a remainder word.                                             *)
(***************************************************************************)
C7_WordPastRemainder ==
  [][ (pc = "decode" /\ k < Len(words) /\ offset % 4 = 3 /\ InDictionary(words[k + 1]))
        => /\ pc' = "decode_done"
           /\ res' = IF IsRemainderWord(words[k + 1])
                       THEN Err("UnexpectedRemainderWord")
                       ELSE Err("DataPastRemainder") ]_vars

\* a base word met after the remainder word
C7_Witness ==
  /\ pc = "decode_done" /\ res = Err("DataPastRemainder")
  /\ k = 4 /\ offset % 4 = 3
  /\ IsRemainderWord(words[3]) /\ InDictionary(words[4]) /\ ~IsRemainderWord(words[4])

\* the largest value of r bytes (r in 1..3)
MaxOfBytes(r) == IF r = 1 THEN 255 ELSE IF r = 2 THEN 65535 ELSE 16777215

(***************************************************************************)
(* C8  At the end of the input with r = offset mod 4 in {1,2,3} leftover    *)
(* bytes, decode fails with UnexpectedRemainder whenever x does not fit in  *)
(* r bytes; it never returns Ok having dropped high bits of x.  (The code   *)
(* makes no test for r = 3.)                                                *)
(***************************************************************************)
C8_NoSilentTruncation ==
  (/\ pc = "decode_done" /\ k = Len(words)
   /\ res.tag = "Ok" \/ res.err = "UnexpectedRemainder"
   /\ offset % 4 \in 1..3
   /\ u32_gt(x, MaxOfBytes(offset % 4)))
     => res = Err("UnexpectedRemainder")

\* the result of decode as a function of the token sequence alone: decode's
\* loop (lib.rs:502-510) and end (lib.rs:511-519) over ws
RECURSIVE DecodeTokens(_, _)
DecodeTokens(st, ws) ==
  IF ws = <<>> THEN decode_end(st)
  ELSE LET s2 == decode_word(st, Head(ws))
       IN  IF s2.err # "" THEN [dest |-> s2.dest, res |-> Err(s2.err)]
           ELSE DecodeTokens(s2, Tail(ws))

(***************************************************************************)
(* C9  Decode is separator-agnostic: the words it iterates over are the     *)
(* maximal runs of ASCII letters of the input, and its result (the bytes    *)
(* written and the count or error returned) is a function of that sequence  *)
(* alone, whatever bytes separate, precede or follow the runs.              *)
(***************************************************************************)
C9_SeparatorAgnostic ==
  /\ pc \in {"decode", "decode_done"} => words = LetterRuns(text)
  /\ pc = "decode_done"
       => [dest |-> dest, res |-> res]
            = DecodeTokens([err |-> "", x |-> u32(0), offset |-> 0, dest |-> <<>>],
                           LetterRuns(text))

\* a text that starts with a separator, has two between its tokens and ends
\* with one, decoded as its two tokens
C9_Witness ==
  /\ pc = "decode_done" /\ res = Ok(2) /\ Len(words) = 2
  /\ ~IsLetter(text[1]) /\ ~IsLetter(text[Len(text)])
  /\ \E a \in 1..(Len(text) - 1) : ~IsLetter(text[a]) /\ ~IsLetter(text[a + 1])

\* the bytes a sequence of accepted words stands for: 4 for each 3 words,
\* 3 for a last triple closed by a remainder word, 1 or 2 for a last 1 or 2
BytesOfWords(ws) ==
  IF Len(ws) > 0 /\ Len(ws) % 3 = 0 /\ IsRemainderWord(ws[Len(ws)])
    THEN 4 * (Len(ws) \div 3) - 1
    ELSE 4 * (Len(ws) \div 3) + (Len(ws) % 3)

(***************************************************************************)
(* C10  When decode succeeds, the count it returns is the number of bytes   *)
(* it wrote to dest: 4 for each completed chunk and the 1, 2 or 3 trailing  *)
(* bytes of a last partial chunk (0 for an input without tokens).           *)
(***************************************************************************)
C10_CountIsBytesWritten ==
  (pc = "decode_done" /\ res.tag = "Ok")
     => /\ res.val = Len(dest)
        /\ Len(dest) = BytesOfWords(LetterRuns(text))

\* a chunk and one trailing byte
C10_Witness ==
  /\ pc = "decode_done" /\ res = Ok(5) /\ Len(dest) = 5 /\ Len(words) = 4

\* the entries of the word table are pairwise distinct
WordsDistinct == Cardinality(DictionaryWords) = Len(MN_WORDS)

\* every index goes through the word table and MN_WORD_INDEX back to itself
IndexRoundTrips ==
  \A j \in 0..(MN_BASE + MN_REMAINDER - 1) : MN_WORD_INDEX_get(MN_WORDS[j + 1]) = j

(***************************************************************************)
(* C11  Dictionary bijectivity: the word table has 1633 entries, pairwise   *)
(* distinct, and MN_WORD_INDEX gives each of them its index in the table;   *)
(* the map is the same in every state (no step writes it), so every word    *)
(* decode has looked up and accepted stands at the index it was given.      *)
(***************************************************************************)
C11_DictionaryBijective ==
  /\ Len(MN_WORDS) = 1633
  /\ WordsDistinct
  /\ IndexRoundTrips
  /\ (pc = "decode" /\ k > 0)
       => LET idx == MN_WORD_INDEX_get(words[k])
          IN  idx \in 0..1632 /\ MN_WORDS[idx + 1] = words[k]

\* decode has looked up the last word of the table
C11_Witness ==
  /\ pc = "decode" /\ k = 3
  /\ MN_WORD_INDEX_get(words[3]) = 1632 /\ words[3] = <<121, 101, 115>>

\* the first cnt words of the encoding of s, each from the second on after
\* "--" when its number is a multiple of 3 and after "-" otherwise
RECURSIVE DefaultText(_, _)
DefaultText(s, cnt) ==
  IF cnt = 0 THEN <<>>
  ELSE DefaultText(s, cnt - 1)
         \o (IF cnt = 1 THEN <<>> ELSE IF (cnt - 1) % 3 = 0 THEN <<45, 45>> ELSE <<45>>)
         \o mn_encode_word(s, cnt - 1)

(***************************************************************************)
(* C12  With the default template the output is the words in order, with    *)
(* nothing before the first and nothing after the last; word n >= 1 comes   *)
(* after "--" when n is a multiple of 3 and after "-" otherwise.  While the *)
(* loop runs, a separator is in the output without its word only between    *)
(* the iteration that wraps the template and the next one, and only when a  *)
(* word is still to come.                                                   *)
(***************************************************************************)
C12_DefaultLayout ==
  /\ (pc = "encode_done" /\ format = MN_FDEFAULT)
       => out = DefaultText(src, mn_words_required(src))
  /\ (pc = "encode" /\ format = MN_FDEFAULT)
       => \/ out = DefaultText(src, n)
          \/ /\ out = DefaultText(src, n) \o <<45, 45>>
             /\ n < num_words /\ n > 0 /\ n % 3 = 0 /\ i = 0

\* the 8 bytes of the test: digital-apollo-aroma--rival-artist-rebel
C12_Witness ==
  /\ pc = "encode_done" /\ format = MN_FDEFAULT
  /\ src = <<101, 2, 240, 6, 108, 11, 20, 97>>
  /\ out = << 100, 105, 103, 105, 116, 97, 108, 45, 97, 112, 111, 108, 108, 111, 45,
              97, 114, 111, 109, 97, 45, 45, 114, 105, 118, 97, 108, 45,
              97, 114, 116, 105, 115, 116, 45, 114, 101, 98, 101, 108 >>

(***************************************************************************)
(* C13  As claimed: the words written for a source are 0 for 0 bytes, 3 for *)
(* every length from 1 to 4 bytes and 6 for every length from 5 to 8.       *)
(***************************************************************************)
C13_ThreeWordsPerChunkBegun ==
  (pc = "encode_done" /\ res.tag = "Ok" /\ Len(src) <= 8)
     => Len(LetterRuns(out)) = IF Len(src) = 0 THEN 0 ELSE IF Len(src) <= 4 THEN 3 ELSE 6

\* the words written for a source of 0, 1, ..., 8 bytes
WordsForLength == <<0, 1, 2, 3, 3, 4, 5, 6, 6>>

(***************************************************************************)
(* C13  As amended: the words written for a source are 0 for 0 bytes; 1, 2, *)
(* 3 and 3 for 1, 2, 3 and 4 bytes; 4, 5, 6 and 6 for 5, 6, 7 and 8 bytes   *)
(* (3 for each full chunk, and 1, 2 or 3 for a last chunk of 1, 2 or 3      *)
(* bytes).                                                                  *)
(***************************************************************************)
C13_WordCountTable ==
  /\ (pc \in {"encode", "encode_done"} /\ Len(src) <= 8)
       => num_words = WordsForLength[Len(src) + 1]
  /\ (pc = "encode_done" /\ res.tag = "Ok" /\ Len(src) <= 8)
       => Len(LetterRuns(out)) = WordsForLength[Len(src) + 1]

\* a source of 5 bytes returns with 4 words
C13_Witness ==
  /\ pc = "encode_done" /\ res.tag = "Ok"
  /\ Len(src) = 5 /\ Len(LetterRuns(out)) = 4

\* whether x0 + v * c exceeds 2^32 - 1, computed without wrapping, for a u32
\* x0 and integers 0 <= v < 2^31 and 0 <= c < 2^15
SumExceedsU32(x0, v, c) ==
  LET p  == u32(v)
      lo == p.lo * c
      hi == p.hi * c + (lo \div 65536)
  IN  hi + x0.hi + (((lo % 65536) + x0.lo) \div 65536) >= 65536

\* the index of the word the loop of decode takes next
NextIndex == MN_WORD_INDEX_get(words[k + 1])

(***************************************************************************)
(* C14  At slot 2 (offset mod 4 = 2) with a base word idx < 1626 and the    *)
(* accumulator x of slots 0 and 1 (x < 1626 * 1626), the step ends decode   *)
(* with InvalidEncoding exactly when x + idx * 1626 * 1626 would exceed     *)
(* 2^32 - 1, that is when idx >= 1625, or idx = 1624 and x > 1312671.  No   *)
(* step overflows the accumulator: a rejected step leaves x as it is, and   *)
(* the sum of an accepted step at slot 1 or 2 does not exceed 2^32 - 1.     *)
(***************************************************************************)
C14_InvalidEncodingExact ==
  [][ (pc = "decode" /\ k < Len(words) /\ NextIndex # None)
        => /\ (offset % 4 = 2 /\ NextIndex < MN_BASE)
                => /\ ~u32_gt(x, MN_BASE * MN_BASE - 1)
                   /\ (pc' = "decode_done" /\ res' = Err("InvalidEncoding"))
                        <=> SumExceedsU32(x, NextIndex * MN_BASE, MN_BASE)
                   /\ SumExceedsU32(x, NextIndex * MN_BASE, MN_BASE)
                        <=> (NextIndex >= 1625 \/ (NextIndex = 1624 /\ u32_gt(x, 1312671)))
           /\ (offset % 4 = 2 /\ NextIndex >= MN_BASE)
                => ~SumExceedsU32(x, (NextIndex - MN_BASE) * MN_BASE, MN_BASE)
           /\ (offset % 4 = 1 /\ pc' = "decode")
                => ~SumExceedsU32(x, NextIndex, MN_BASE)
           /\ pc' = "decode_done" => (x' = x /\ offset' = offset) ]_vars

\* the third word 1624 rejected with x = 1312672, one past the bound
C14_Witness ==
  /\ pc = "decode_done" /\ res = Err("InvalidEncoding")
  /\ k = 3 /\ MN_WORD_INDEX_get(words[3]) = 1624
  /\ x = u32(1312672)

\* whether word number cnt of the encoding of s is the third word of a last
\* chunk of exactly 3 bytes
IsTailOf3(s, cnt) == cnt % 3 = 2 /\ Len(s) - 4 * (cnt \div 3) = 3

\* the byte of s at 0-based index j, 0 past its end
ByteOrZero(s, j) == IF j < Len(s) THEN s[j + 1] ELSE 0

\* the little-endian value of chunk c of s (its up to 4 bytes), as a u32
ChunkValue(s, c) ==
  [hi |-> ByteOrZero(s, 4 * c + 2) + 256 * ByteOrZero(s, 4 * c + 3),
   lo |-> ByteOrZero(s, 4 * c) + 256 * ByteOrZero(s, 4 * c + 1)]

\* the base-1626 digit that word number cnt of ws stands for: its index, less
\* 1626 for the third word of a last chunk of 3 bytes
DigitOf(s, ws, cnt) ==
  IF cnt < Len(ws)
    THEN MN_WORD_INDEX_get(ws[cnt + 1]) - (IF IsTailOf3(s, cnt) THEN MN_BASE ELSE 0)
    ELSE 0

\* the words of chunk c of ws are digits d0, d1, d2 below 1626 with
\* d0 + 1626 * d1 + 1626 * 1626 * d2 the value of the chunk, without overflow
ChunkIsDigits(s, ws, c) ==
  LET d0 == DigitOf(s, ws, 3 * c)
      d1 == DigitOf(s, ws, 3 * c + 1)
      d2 == DigitOf(s, ws, 3 * c + 2)
      lo == u32(d0 + d1 * MN_BASE)
  IN  /\ {d0, d1, d2} \subseteq 0..(MN_BASE - 1)
      /\ ~SumExceedsU32(lo, d2 * MN_BASE, MN_BASE)
      /\ u32_add(lo, u32_mul(u32_mul(u32(d2), MN_BASE), MN_BASE)) = ChunkValue(s, c)

(***************************************************************************)
(* C15  Every word the encoder writes has a dictionary index in [0, 1633).  *)
(* The index is a remainder index (>= 1626) exactly at slot 2 of a last     *)
(* chunk of exactly 3 source bytes, where it is 1626 + x / (1626 * 1626)    *)
(* and at most 1632; everywhere else it is below 1626.  The indices of a    *)
(* chunk (less 1626 for a remainder index) are the base-1626 digits of the  *)
(* little-endian value x of the chunk.                                      *)
(***************************************************************************)
C15_EncodedIndices ==
  pc \in {"encode", "encode_done"}
    => LET ws == LetterRuns(out)
       IN  /\ \A cnt \in 0..(Len(ws) - 1) :
                LET idx == MN_WORD_INDEX_get(ws[cnt + 1])
                IN  /\ idx \in 0..(MN_BASE + MN_REMAINDER - 1)
                    /\ idx >= MN_BASE <=> IsTailOf3(src, cnt)
           /\ (pc = "encode_done" /\ res.tag = "Ok")
                => \A c \in 0..((Len(ws) + 2) \div 3 - 1) : ChunkIsDigits(src, ws, c)

\* the 3 bytes of the test, 0x01 0xE2 0x40: consul-quiet-fax, fax at 1627
C15_Witness ==
  /\ pc = "encode_done" /\ res.tag = "Ok" /\ src = <<1, 226, 64>>
  /\ Len(LetterRuns(out)) = 3
  /\ MN_WORD_INDEX_get(LetterRuns(out)[3]) = 1627

(***************************************************************************)
(* C16  A call of encode_with_format with a template without an ASCII       *)
(* letter (the empty one included) and a source of at least one byte never  *)
(* returns: n stays 0 below num_words, every iteration is the one that      *)
(* copies the template and wraps the cursor to 0, and no word is written.   *)
(* With an empty source the call has no word to write: it returns Ok at     *)
(* once and the output is empty.                                            *)
(***************************************************************************)
C16_LetterFreeTemplateLoops ==
  (pc \in {"encode", "encode_done"} /\ ~HasLetter(format))
    => /\ src # <<>>
            => /\ pc = "encode"
               /\ n = 0 /\ n < num_words
               /\ i = 0 /\ skip_separators(format, i) = Len(format)
               /\ LetterRuns(out) = <<>>
       /\ src = <<>>
            => /\ num_words = 0 /\ n = 0 /\ out = <<>>
               /\ pc = "encode_done" => res = Ok(0)

\* the template "-" copied three times for a source of one byte, no word yet
C16_Witness ==
  /\ pc = "encode" /\ format = <<45>> /\ Len(src) = 1
  /\ n = 0 /\ i = 0 /\ out = <<45, 45, 45>>

\* the value the words ws (at most three dictionary words) stand for: the sum
\* of index * 1626^position
RECURSIVE WordsValue(_)
WordsValue(ws) ==
  IF ws = <<>> THEN u32(0)
  ELSE u32_add(u32(MN_WORD_INDEX_get(ws[1])),
               u32_mul(WordsValue(Tail(ws)), MN_BASE))

\* the 4-byte chunks completed by the accepted words ws: one for each three
\* words whose third is not a remainder word
RECURSIVE CompletedChunks(_)
CompletedChunks(ws) ==
  IF Len(ws) < 3 \/ IsRemainderWord(ws[3]) THEN <<>>
  ELSE LE32(WordsValue(SubSeq(ws, 1, 3))) \o CompletedChunks(SubSeq(ws, 4, Len(ws)))

(***************************************************************************)
(* C17  decode is not atomic with respect to dest.  When it fails at the    *)
(* k-th token, dest holds exactly the 4-byte little-endian chunks completed *)
(* by the tokens before k, and the outcome is that of the input cut after   *)
(* token k (no later token is examined).  When it fails at the end of the   *)
(* input with UnexpectedRemainder, every token was accepted and dest holds  *)
(* the completed chunks followed by the low (offset mod 4) bytes of x.      *)
(***************************************************************************)
C17_FailureLeavesPartialOutput ==
  (pc = "decode_done" /\ res.tag = "Err")
    => IF res.err = "UnexpectedRemainder"
         THEN /\ k = Len(words)
              /\ offset % 4 \in {1, 2}
              /\ x = WordsValue(SubSeq(words, k - (offset % 4) + 1, k))
              /\ dest = CompletedChunks(words) \o SubSeq(LE32(x), 1, offset % 4)
         ELSE /\ k \in 1..Len(words)
              /\ dest = CompletedChunks(SubSeq(words, 1, k - 1))
              /\ [dest |-> dest, res |-> res]
                   = DecodeTokens([err |-> "", x |-> u32(0), offset |-> 0, dest |-> <<>>],
                                  SubSeq(words, 1, k))

\* three words of a chunk, then one word too large for a single byte: the
\* call fails with the chunk and the low byte of x in dest
C17_Witness ==
  /\ pc = "decode_done" /\ res = Err("UnexpectedRemainder")
  /\ Len(words) = 4 /\ Len(dest) = 5 /\ u32_gt(x, 255)

====
